---- MODULE Spec2Model ----
(***************************************************************************)
(* A model of the bearer-go agent: an http.RoundTripper that enforces a    *)
(* domain blocklist, duplicates request/response bodies, builds and        *)
(* sanitizes a report log, and ships it from a separate goroutine.         *)
(*                                                                         *)
(* Go strings are modelled as sequences of characters, each a string of    *)
(* its own (a control character and the grave accent are written by name), *)
(* so that the regular expressions, url.Parse and encoding/json operate on *)
(* the characters as the code does.  The alphabet is ASCII.                *)
(*                                                                         *)
(* A function whose result depends on the order of a range over a map is   *)
(* modelled as the set of the results it can have: the content-type        *)
(* accessors of the report log, and sanitize and newRecord that call them. *)
(***************************************************************************)
EXTENDS Integers, Sequences, FiniteSets, TLC

(***************************************************************************)
(* Characters and string helpers                                           *)
(***************************************************************************)
UpperChars == <<"A","B","C","D","E","F","G","H","I","J","K","L","M","N","O","P","Q","R","S","T","U","V","W","X","Y","Z">>

LowerChars == <<"a","b","c","d","e","f","g","h","i","j","k","l","m","n","o","p","q","r","s","t","u","v","w","x","y","z">>

DigitChars == <<"0","1","2","3","4","5","6","7","8","9">>

Range(s) == {s[i] : i \in DOMAIN s}

\* the class [a-zA-Z0-9]
Alnum == Range(UpperChars) \cup Range(LowerChars) \cup Range(DigitChars)

\* strings.ToLower / the (?i) flag, on one ASCII character
ToLowerChar(c) ==
  IF c \in Range(UpperChars)
    THEN LowerChars[CHOOSE i \in DOMAIN UpperChars : UpperChars[i] = c]
    ELSE c

ToLower(s) == [i \in DOMAIN s |-> ToLowerChar(s[i])]

\* s[from..] (1-based, empty when from is past the end)
Drop(s, n) == SubSeq(s, n + 1, Len(s))

Take(s, n) == SubSeq(s, 1, n)

HasPrefix(s, p) == Len(s) >= Len(p) /\ Take(s, Len(p)) = p

\* the positions where p occurs in s
Occurrences(s, p) == {i \in 1..(Len(s) - Len(p) + 1) : SubSeq(s, i, i + Len(p) - 1) = p}

\* strings.Index: the first 1-based position where p occurs in s, 0 if none
Index(s, p) ==
  IF Occurrences(s, p) = {} THEN 0
  ELSE CHOOSE i \in Occurrences(s, p) : \A j \in Occurrences(s, p) : i <= j

\* strings.LastIndex, 1-based, 0 if none
LastIndex(s, p) ==
  IF Occurrences(s, p) = {} THEN 0
  ELSE CHOOSE i \in Occurrences(s, p) : \A j \in Occurrences(s, p) : i >= j

\* the length of the longest run of characters of the class cls, starting at position i
RunLen(s, i, cls) ==
  IF i > Len(s) THEN 0
  ELSE CHOOSE k \in 0..(Len(s) + 1 - i) :
         /\ \A j \in 0..(k - 1) : s[i + j] \in cls
         /\ (i + k > Len(s) \/ s[i + k] \notin cls)

(***************************************************************************)
(* sanitize.go: the redaction patterns                                     *)
(***************************************************************************)
defaultSensitivePlaceholder == <<"[", "F", "I", "L", "T", "E", "R", "E", "D", "]">>

\* defaultStripSensitiveKeys: the alternatives of the pattern, each anchored
\* by ^ and $, lower-cased by (?i); ".?" stands for one optional character
defaultStripSensitiveKeys ==
  <<  <<"a", "u", "t", "h", "o", "r", "i", "z", "a", "t", "i", "o", "n">>,
      <<"p", "a", "s", "s", "w", "o", "r", "d">>,
      <<"s", "e", "c", "r", "e", "t">>,
      <<"p", "a", "s", "s", "w", "d">>,
      <<"a", "p", "i", ".?", "k", "e", "y">>,
      <<"a", "c", "c", "e", "s", "s", ".?", "t", "o", "k", "e", "n">>,
      <<"a", "u", "t", "h", ".?", "t", "o", "k", "e", "n">>,
      <<"c", "r", "e", "d", "e", "n", "t", "i", "a", "l", "s">>,
      <<"m", "y", "s", "q", "l", "_", "p", "w", "d">>,
      <<"s", "t", "r", "i", "p", "e", "t", "o", "k", "e", "n">>,
      <<"c", "a", "r", "d", ".?", "n", "u", "m", "b", "e", "r", ".?">>,
      <<"s", "e", "c", "r", "e", "t">>,
      <<"c", "l", "i", "e", "n", "t", ".?", "i", "d">>,
      <<"c", "l", "i", "e", "n", "t", ".?", "s", "e", "c", "r", "e", "t">> >>

\* one anchored alternative against the whole key
RECURSIVE MatchKeyPattern(_, _)
MatchKeyPattern(p, k) ==
  IF p = <<>> THEN k = <<>>
  ELSE IF Head(p) = ".?"
    THEN MatchKeyPattern(Tail(p), k)
         \/ (k # <<>> /\ Head(k) # "\n" /\ MatchKeyPattern(Tail(p), Tail(k)))
    ELSE k # <<>> /\ ToLowerChar(Head(k)) = Head(p) /\ MatchKeyPattern(Tail(p), Tail(k))

\* a faulty pattern: the alternatives are not anchored at the end of the key
sensitiveKeysMatchPrefix(k) ==
  \E i \in DOMAIN defaultStripSensitiveKeys, n \in 0..Len(k) :
    MatchKeyPattern(defaultStripSensitiveKeys[i], Take(k, n))

\* sensitiveKeys.MatchString(k)
sensitiveKeysMatchString(k) ==
  \E i \in DOMAIN defaultStripSensitiveKeys : MatchKeyPattern(defaultStripSensitiveKeys[i], k)

\* the character class of the local part of the e-mail alternative, over
\* the alphabet of the model; the grave accent is written GRAVE, as in
\* Ascii.  One member of the class in the source, the typographic
\* apostrophe U+2019, is not ASCII and so not in the alphabet.
EmailLocalClass ==
  Alnum \cup {".", "!", "#", "$", "%", "&", "*", "+", "=", "?", "^", "_", "GRAVE",
              "{", "|", "}", "~", "-"}

\* the class [a-zA-Z0-9-]
EmailDomainClass == Alnum \cup {"-"}

\* (?:\\.[a-zA-Z0-9-]+)* as the regexp engine reads it: a literal backslash,
\* any one character, one or more domain characters, repeated greedily.
\* Gives the position after the last repetition that matches from p.
RECURSIVE EmailGroupsEnd(_, _)
EmailGroupsEnd(s, p) ==
  IF p + 2 <= Len(s) /\ s[p] = "\\" /\ s[p + 1] # "\n"
     /\ RunLen(s, p + 2, EmailDomainClass) >= 1
    THEN EmailGroupsEnd(s, p + 2 + RunLen(s, p + 2, EmailDomainClass))
    ELSE p

\* the e-mail alternative from its "@", expected at position at: the
\* position after the match, 0 when there is none
EmailDomainEnd(s, at) ==
  IF at <= Len(s) /\ s[at] = "@" /\ RunLen(s, at + 1, EmailDomainClass) >= 1
    THEN EmailGroupsEnd(s, at + 1 + RunLen(s, at + 1, EmailDomainClass))
    ELSE 0

\* The first alternative of defaultStripSensitiveRegex anchored at position i:
\* the position after the match, 0 when it does not match there.
EmailMatchEnd(s, i) ==
  IF i <= Len(s) /\ s[i] \in Alnum /\ RunLen(s, i + 1, EmailLocalClass) >= 1
    THEN EmailDomainEnd(s, i + 1 + RunLen(s, i + 1, EmailLocalClass))
    ELSE 0

CardMinRepeat == 13

CardMaxRepeat == 16

\* (?:\\d[ -]*?){13,16} as the regexp engine reads it: the two characters
\* backslash and d, then separators, 13 to 16 times.  The separators are
\* lazy inside a greedy repetition: as long as a repetition is still owed
\* (fewer than 13 are matched) the separators up to the next one are taken;
\* from the 13th on none is taken, so a further repetition has to follow at
\* once and the match ends right after a "d".
\* CardSkip: the separators taken after the k-th repetition, which starts
\* at p.
CardSkip(s, p, k) ==
  IF k < CardMinRepeat THEN RunLen(s, p + 2, {" ", "-"}) ELSE 0

\* CardUnits counts the repetitions matched from p, max being the number
\* still allowed; CardEnd gives the position after the n-th repetition, p
\* being the start of the k-th.
RECURSIVE CardUnits(_, _, _)
CardUnits(s, p, max) ==
  IF max > 0 /\ p + 1 <= Len(s) /\ s[p] = "\\" /\ s[p + 1] = "d"
    THEN 1 + CardUnits(s, p + 2 + CardSkip(s, p, CardMaxRepeat - max + 1), max - 1)
    ELSE 0

RECURSIVE CardEnd(_, _, _, _)
CardEnd(s, p, k, n) ==
  IF k >= n THEN p + 2
  ELSE CardEnd(s, p + 2 + CardSkip(s, p, k), k + 1, n)

\* the second alternative anchored at i: the position after the match, 0
\* when fewer repetitions than the minimum are available
CardMatchEnd(s, i) ==
  IF CardUnits(s, i, CardMaxRepeat) >= CardMinRepeat
    THEN CardEnd(s, i, 1, CardUnits(s, i, CardMaxRepeat))
    ELSE 0

\* sensitiveValues anchored at i: the position after the match, 0 for none;
\* the first alternative that matches wins
sensitiveValuesMatchEnd(s, i) ==
  IF EmailMatchEnd(s, i) > 0 THEN EmailMatchEnd(s, i) ELSE CardMatchEnd(s, i)

\* ReplaceAllString, n steps of its scan from position i on: at each step a
\* match becomes the placeholder and the scan goes on after it, another
\* character is copied.  Gives the text produced and the position reached.
\* The steps are taken half by half, which keeps the evaluation shallow on
\* long strings.
RECURSIVE ReplaceSteps(_, _, _)
ReplaceSteps(s, i, n) ==
  IF i > Len(s) THEN [out |-> <<>>, pos |-> i]
  ELSE IF n <= 1
    THEN LET e == sensitiveValuesMatchEnd(s, i)
         IN  IF e > 0 THEN [out |-> defaultSensitivePlaceholder, pos |-> e]
             ELSE [out |-> <<s[i]>>, pos |-> i + 1]
    ELSE LET first == ReplaceSteps(s, i, n \div 2)
             rest == ReplaceSteps(s, first.pos, n - (n \div 2))
         IN  [out |-> first.out \o rest.out, pos |-> rest.pos]

\* ReplaceAllString from position i on: every step moves on by a character
\* at least
ReplaceAllFrom(s, i) == ReplaceSteps(s, i, Len(s)).out

\* sensitiveValues.ReplaceAllString(s, defaultSensitivePlaceholder)
sensitiveValuesReplaceAllString(s) == ReplaceAllFrom(s, 1)

(***************************************************************************)
(* Character codes, percent-encoding and string order (net/url, sort)      *)
(***************************************************************************)
\* The alphabet is ASCII.  Control: the characters 0x00 to 0x1F in code
\* order, the tab, line feed, form feed and carriage return as TLA+ writes
\* them, the others by their names; DEL is 0x7F.
Control ==
  << "NUL", "SOH", "STX", "ETX", "EOT", "ENQ", "ACK", "BEL", "BS", "\t", "\n", "VT", "\f", "\r",
     "SO", "SI", "DLE", "DC1", "DC2", "DC3", "DC4", "NAK", "SYN", "ETB", "CAN", "EM", "SUB",
     "ESC", "FS", "GS", "RS", "US" >>

\* the characters below 0x20, and 0x7F
ControlChars == Range(Control) \cup {"DEL"}

\* the printable ASCII characters in code order, 0x20 first; the entry
\* GRAVE is the grave accent (0x60)
Ascii ==
  << " ", "!", "\"", "#", "$", "%", "&", "'", "(", ")", "*", "+", ",", "-", ".", "/",
     "0", "1", "2", "3", "4", "5", "6", "7", "8", "9", ":", ";", "<", "=", ">", "?",
     "@", "A", "B", "C", "D", "E", "F", "G", "H", "I", "J", "K", "L", "M", "N", "O",
     "P", "Q", "R", "S", "T", "U", "V", "W", "X", "Y", "Z", "[", "\\", "]", "^", "_",
     "GRAVE", "a", "b", "c", "d", "e", "f", "g", "h", "i", "j", "k", "l", "m", "n", "o",
     "p", "q", "r", "s", "t", "u", "v", "w", "x", "y", "z", "{", "|", "}", "~" >>

\* the byte value of a character
Ord(c) ==
  IF c \in ControlChars
    THEN (IF c = "DEL" THEN 127 ELSE (CHOOSE i \in DOMAIN Control : Control[i] = c) - 1)
    ELSE 31 + CHOOSE i \in DOMAIN Ascii : Ascii[i] = c

\* the character of a byte value below 0x80
Chr(n) == IF n < 32 THEN Control[n + 1] ELSE IF n = 127 THEN "DEL" ELSE Ascii[n - 31]

HexDigits == <<"0","1","2","3","4","5","6","7","8","9","A","B","C","D","E","F">>

IsHex(c) == ToLowerChar(c) \in Range(DigitChars) \cup {"a","b","c","d","e","f"}

\* unhex: the value of a hexadecimal digit
UnHex(c) ==
  (CHOOSE i \in DOMAIN HexDigits : HexDigits[i] = c \/ ToLowerChar(HexDigits[i]) = c) - 1

\* "%XX" for one character
PctEncode(c) == <<"%", HexDigits[(Ord(c) \div 16) + 1], HexDigits[(Ord(c) % 16) + 1]>>

\* byte-wise string order, as sort.Strings uses it
RECURSIVE StrLess(_, _)
StrLess(a, b) ==
  IF b = <<>> THEN FALSE
  ELSE IF a = <<>> THEN TRUE
  ELSE IF Head(a) = Head(b) THEN StrLess(Tail(a), Tail(b))
  ELSE Ord(Head(a)) < Ord(Head(b))

\* the strings of a set in increasing order
RECURSIVE SortStrings(_)
SortStrings(S) ==
  IF S = {} THEN <<>>
  ELSE LET m == CHOOSE x \in S : \A y \in S \ {x} : StrLess(x, y)
       IN  <<m>> \o SortStrings(S \ {m})

\* strings.Cut(s, sep): the parts before and after the first sep
CutBefore(s, sep) == IF Index(s, sep) = 0 THEN s ELSE Take(s, Index(s, sep) - 1)

CutAfter(s, sep) == IF Index(s, sep) = 0 THEN <<>> ELSE Drop(s, Index(s, sep) + Len(sep) - 1)

Contains(s, sep) == Index(s, sep) > 0

\* every "%" of s is followed by two hexadecimal digits
ValidEscapes(s) ==
  \A i \in DOMAIN s :
    s[i] = "%" => (i + 2 <= Len(s) /\ IsHex(s[i + 1]) /\ IsHex(s[i + 2]))

\* the characters shouldEscape leaves alone in every mode
Unreserved == Alnum \cup {"-", "_", ".", "~"}

\* url.unescape for a string with valid escapes: "%XX" becomes the
\* character, and in a query component "+" becomes a space
RECURSIVE UnescapeFrom(_, _, _)
UnescapeFrom(s, i, plusIsSpace) ==
  IF i > Len(s) THEN <<>>
  ELSE IF s[i] = "%"
    THEN <<Chr(16 * UnHex(s[i + 1]) + UnHex(s[i + 2]))>> \o UnescapeFrom(s, i + 3, plusIsSpace)
  ELSE IF s[i] = "+" /\ plusIsSpace
    THEN <<" ">> \o UnescapeFrom(s, i + 1, plusIsSpace)
  ELSE <<s[i]>> \o UnescapeFrom(s, i + 1, plusIsSpace)

\* url.escape: the characters outside keep are percent-encoded; in a query
\* component a space becomes "+"
RECURSIVE EscapeWith(_, _, _)
EscapeWith(s, keep, spaceIsPlus) ==
  IF s = <<>> THEN <<>>
  ELSE (IF Head(s) \in keep THEN <<Head(s)>>
        ELSE IF Head(s) = " " /\ spaceIsPlus THEN <<"+">>
        ELSE PctEncode(Head(s)))
       \o EscapeWith(Tail(s), keep, spaceIsPlus)

\* url.QueryEscape and url.QueryUnescape
QueryEscape(s) == EscapeWith(s, Unreserved, TRUE)

QueryUnescape(s) == UnescapeFrom(s, 1, TRUE)

(***************************************************************************)
(* net/url: Parse, URL.String, URL.Query, Values.Encode                    *)
(***************************************************************************)
\* getScheme: the length of the scheme of rawURL (0 when it has none), or
\* -1 for the error "missing protocol scheme"
RECURSIVE SchemeLen(_, _)
SchemeLen(s, i) ==
  IF i > Len(s) THEN 0
  ELSE IF s[i] \in Range(UpperChars) \cup Range(LowerChars) THEN SchemeLen(s, i + 1)
  ELSE IF s[i] \in Range(DigitChars) \cup {"+", "-", "."}
    THEN (IF i = 1 THEN 0 ELSE SchemeLen(s, i + 1))
  ELSE IF s[i] = ":" THEN (IF i = 1 THEN -1 ELSE i - 1)
  ELSE 0

\* validOptionalPort
validOptionalPort(port) ==
  port = <<>> \/ (Head(port) = ":" /\ \A i \in 2..Len(port) : port[i] \in Range(DigitChars))

\* the characters shouldEscape(c, encodeHost) leaves alone
HostKeep ==
  Unreserved \cup {"!", "$", "&", "'", "(", ")", "*", "+", ",", ";", "=", ":", "[", "]",
                   "<", ">", "\""}

\* the escape "%XY" is one that unescape accepts in a zone identifier: the
\* escaped percent sign, a space, or a character a host may hold as it is
zoneEscape(x, y) ==
  \/ (x = "2" /\ y = "5")
  \/ 16 * UnHex(x) + UnHex(y) = 32
  \/ (16 * UnHex(x) + UnHex(y) \in 33..126 /\ Chr(16 * UnHex(x) + UnHex(y)) \in HostKeep)

\* unescape(s, encodeHost), or unescape(s, encodeZone) for zone, returns
\* no error: every "%" starts an escape, which in a host is "%25" or that
\* of a byte from 0x80 on, and every other character is one of HostKeep
validHostPart(s, zone) ==
  \A i \in DOMAIN s :
    IF s[i] = "%"
      THEN i + 2 <= Len(s) /\ IsHex(s[i + 1]) /\ IsHex(s[i + 2])
           /\ (IF zone THEN zoneEscape(s[i + 1], s[i + 2])
                ELSE UnHex(s[i + 1]) >= 8 \/ (s[i + 1] = "2" /\ s[i + 2] = "5"))
      ELSE s[i] \in HostKeep

\* the host "[...]..." whose last "]" is at position j: the position of
\* the first "%25" before that bracket, where the zone identifier begins
\* (0: there is none)
zoneStart(host, j) == Index(Take(host, j - 1), <<"%", "2", "5">>)

\* parseHost succeeds: a valid optional port, and a host that unescapes,
\* the zone identifier of an address in brackets by the rule of zones
validHost(host) ==
  IF HasPrefix(host, <<"[">>)
    THEN LastIndex(host, <<"]">>) > 0
         /\ validOptionalPort(Drop(host, LastIndex(host, <<"]">>)))
         /\ IF zoneStart(host, LastIndex(host, <<"]">>)) > 0
              THEN /\ validHostPart(Take(host, zoneStart(host, LastIndex(host, <<"]">>)) - 1), FALSE)
                   /\ validHostPart(SubSeq(host, zoneStart(host, LastIndex(host, <<"]">>)),
                                           LastIndex(host, <<"]">>) - 1), TRUE)
                   /\ validHostPart(Drop(host, LastIndex(host, <<"]">>) - 1), FALSE)
              ELSE validHostPart(host, FALSE)
    ELSE (LastIndex(host, <<":">>) > 0
            => validOptionalPort(Drop(host, LastIndex(host, <<":">>) - 1)))
         /\ validHostPart(host, FALSE)

\* validUserinfo
validUserinfo(s) ==
  \A i \in DOMAIN s :
    s[i] \in Alnum \cup {"-", ".", "_", ":", "~", "!", "$", "&", "'", "(", ")", "*", "+",
                         ",", ";", "=", "%", "@"}

\* the zero URL
NoURL ==
  [Scheme |-> <<>>, Opaque |-> <<>>, HasUser |-> FALSE, Username |-> <<>>,
   HasPassword |-> FALSE, Password |-> <<>>, Host |-> <<>>, RawPath |-> <<>>,
   RawQuery |-> <<>>, ForceQuery |-> FALSE, RawFragment |-> <<>>, OmitHost |-> FALSE]

ParseError == [err |-> TRUE, u |-> NoURL]

\* parseAuthority, the authority being split at position at, that of its
\* last "@" (0: it holds no userinfo); the host is kept unescaped
parseAuthority(u, authority, at) ==
  IF ~validHost(Drop(authority, at))
     \/ (at > 0 /\ (~validUserinfo(Take(authority, at - 1))
                    \/ ~ValidEscapes(Take(authority, at - 1))))
    THEN ParseError
    ELSE [err |-> FALSE,
          u |-> [u EXCEPT
                   !.HasUser = at > 0,
                   !.Username = UnescapeFrom(CutBefore(Take(authority, at - 1), <<":">>), 1, FALSE),
                   !.HasPassword = Contains(Take(authority, at - 1), <<":">>),
                   !.Password = UnescapeFrom(CutAfter(Take(authority, at - 1), <<":">>), 1, FALSE),
                   !.Host = UnescapeFrom(Drop(authority, at), 1, FALSE)]]

\* parse: rest begins with "//": the authority runs up to the next "/",
\* the path is what follows
parseWithAuthority(u, after) ==
  IF ~ValidEscapes(CutAfter(after, <<"/">>)) THEN ParseError
  ELSE parseAuthority(
         [u EXCEPT !.RawPath = IF Contains(after, <<"/">>)
                                 THEN Drop(after, Index(after, <<"/">>) - 1) ELSE <<>>],
         CutBefore(after, <<"/">>),
         LastIndex(CutBefore(after, <<"/">>), <<"@">>))

\* parse, after the scheme and the query are split off: u holds them, rest
\* is the remainder.  A rooted path after a scheme, with no authority
\* before it, sets OmitHost.
parseRest(u, rest) ==
  IF ~HasPrefix(rest, <<"/">>) /\ u.Scheme # <<>>
    THEN [err |-> FALSE, u |-> [u EXCEPT !.Opaque = rest]]
  ELSE IF ~HasPrefix(rest, <<"/">>) /\ Contains(CutBefore(rest, <<"/">>), <<":">>)
    THEN ParseError
  ELSE IF HasPrefix(rest, <<"/", "/">>)
          /\ (u.Scheme # <<>> \/ ~HasPrefix(rest, <<"/", "/", "/">>))
    THEN parseWithAuthority(u, Drop(rest, 2))
  ELSE IF ~ValidEscapes(rest) THEN ParseError
  ELSE [err |-> FALSE,
        u |-> [u EXCEPT !.RawPath = rest,
                        !.OmitHost = u.Scheme # <<>> /\ HasPrefix(rest, <<"/">>)]]

\* rest ends with its only "?"
forceQuery(rest) ==
  rest # <<>> /\ rest[Len(rest)] = "?"
  /\ Cardinality({i \in DOMAIN rest : rest[i] = "?"}) = 1

\* parse, after getScheme: the query is split off
parseQuery(u, rest) ==
  parseRest([u EXCEPT !.ForceQuery = forceQuery(rest),
                      !.RawQuery = IF forceQuery(rest) THEN <<>> ELSE CutAfter(rest, <<"?">>)],
            IF forceQuery(rest) THEN Take(rest, Len(rest) - 1) ELSE CutBefore(rest, <<"?">>))

\* parse: getScheme found a scheme of length sl (0: none, -1: an error)
parseScheme(u, s, sl) ==
  IF sl = -1 THEN ParseError
  ELSE IF s = <<"*">> THEN [err |-> FALSE, u |-> [u EXCEPT !.RawPath = <<"*">>]]
  ELSE parseQuery([u EXCEPT !.Scheme = ToLower(Take(s, sl))],
                  IF sl > 0 THEN Drop(s, sl + 1) ELSE s)

\* url.Parse(rawURL): [err |-> an error was returned, u |-> the URL].  The
\* path and the fragment are kept as they were given, RawPath and
\* RawFragment; urlPath and EscapedPath, EscapedFragment give the decoded
\* and the written forms.  A control character before the fragment is an
\* error.
urlParse(rawURL) ==
  IF (\E i \in DOMAIN CutBefore(rawURL, <<"#">>) : rawURL[i] \in ControlChars)
     \/ ~ValidEscapes(CutAfter(rawURL, <<"#">>))
    THEN ParseError
  ELSE parseScheme([NoURL EXCEPT !.RawFragment = CutAfter(rawURL, <<"#">>)],
                   CutBefore(rawURL, <<"#">>),
                   SchemeLen(CutBefore(rawURL, <<"#">>), 1))

\* URL.EscapedPath.  setPath keeps the path as given in RawPath unless it is
\* the canonical escaping of the decoded path; EscapedPath returns a kept
\* RawPath that is a valid encoding (only characters
\* validEncoded(s, encodePath) accepts), else "*" for the decoded path "*",
\* which is not escaped, else the canonical escaping of the decoded path
EscapedPath(u) ==
  IF u.RawPath # EscapeWith(UnescapeFrom(u.RawPath, 1, FALSE),
                            Unreserved \cup {"$", "&", "+", ",", "/", ":", ";", "=", "@"}, FALSE)
     /\ \A i \in DOMAIN u.RawPath :
          u.RawPath[i] \in Unreserved \cup {"!", "$", "&", "'", "(", ")", "*", "+", ",", ";",
                                            "=", ":", "@", "[", "]", "%", "/"}
    THEN u.RawPath
  ELSE IF UnescapeFrom(u.RawPath, 1, FALSE) = <<"*">> THEN <<"*">>
  ELSE EscapeWith(UnescapeFrom(u.RawPath, 1, FALSE),
                  Unreserved \cup {"$", "&", "+", ",", "/", ":", ";", "=", "@"}, FALSE)

\* Userinfo.String
UserinfoString(u) ==
  EscapeWith(u.Username, Unreserved \cup {"$", "&", "+", ",", ";", "="}, FALSE)
  \o (IF u.HasPassword
        THEN <<":">> \o EscapeWith(u.Password, Unreserved \cup {"$", "&", "+", ",", ";", "="}, FALSE)
        ELSE <<>>)

\* URL.EscapedFragment: the fragment as given when it is a valid encoding
\* (only characters validEncoded(s, encodeFragment) accepts), else its
\* canonical escaping
EscapedFragment(u) ==
  IF \A i \in DOMAIN u.RawFragment :
       u.RawFragment[i] \in Unreserved \cup {"!", "$", "&", "'", "(", ")", "*", "+", ",",
                                             ";", "=", ":", "@", "[", "]", "%", "/", "?"}
    THEN u.RawFragment
    ELSE EscapeWith(UnescapeFrom(u.RawFragment, 1, FALSE),
                    Unreserved \cup {"$", "&", "+", ",", "/", ":", ";", "=", "?", "@",
                                     "!", "(", ")", "*"}, FALSE)

\* URL.String: the scheme and the authority, which is left out, slashes
\* included, when OmitHost is set and there is neither host nor user; the
\* host is written escaped
urlStringHead(u, path) ==
  (IF u.Scheme # <<>> THEN u.Scheme \o <<":">> ELSE <<>>)
  \o (IF u.Opaque # <<>> THEN u.Opaque
      ELSE IF u.OmitHost /\ u.Host = <<>> /\ ~u.HasUser THEN <<>>
      ELSE (IF (u.Scheme # <<>> \/ u.Host # <<>> \/ u.HasUser)
               /\ (u.Host # <<>> \/ path # <<>> \/ u.HasUser)
              THEN <<"/", "/">> ELSE <<>>)
           \o (IF u.HasUser THEN UserinfoString(u) \o <<"@">> ELSE <<>>)
           \o EscapeWith(u.Host, HostKeep, FALSE))

\* URL.String, path being the escaped path and head the scheme and the
\* authority: the path gets "/" or "./" written before it where needed
urlStringWith(u, path, head) ==
  head
  \o (IF u.Opaque # <<>> THEN <<>>
      ELSE IF path # <<>> /\ Head(path) # "/" /\ u.Host # <<>> THEN <<"/">> \o path
      ELSE IF head = <<>> /\ Contains(CutBefore(path, <<"/">>), <<":">>) THEN <<".", "/">> \o path
      ELSE path)
  \o (IF u.ForceQuery \/ u.RawQuery # <<>> THEN <<"?">> \o u.RawQuery ELSE <<>>)
  \o (IF u.RawFragment # <<>> THEN <<"#">> \o EscapedFragment(u) ELSE <<>>)

\* URL.String
urlString(u) == urlStringWith(u, EscapedPath(u), urlStringHead(u, EscapedPath(u)))

\* strings.Split(s, sep) for a one-character separator
RECURSIVE Split(_, _)
Split(s, sep) ==
  IF Index(s, <<sep>>) = 0 THEN <<s>>
  ELSE <<Take(s, Index(s, <<sep>>) - 1)>> \o Split(Drop(s, Index(s, <<sep>>)), sep)

\* url.ParseQuery: a pair is kept when it is not empty, holds no semicolon
\* and both its key and its value unescape
RECURSIVE QueryPairs(_)
QueryPairs(parts) ==
  IF parts = <<>> THEN <<>>
  ELSE (IF Head(parts) # <<>> /\ ~Contains(Head(parts), <<";">>) /\ ValidEscapes(Head(parts))
          THEN << <<QueryUnescape(CutBefore(Head(parts), <<"=">>)),
                    QueryUnescape(CutAfter(Head(parts), <<"=">>))>> >>
          ELSE <<>>)
       \o QueryPairs(Tail(parts))

\* the values of key k among the pairs, in order
RECURSIVE ValuesOf(_, _)
ValuesOf(pairs, k) ==
  IF pairs = <<>> THEN <<>>
  ELSE (IF Head(pairs)[1] = k THEN <<Head(pairs)[2]>> ELSE <<>>) \o ValuesOf(Tail(pairs), k)

\* the pairs of the query of u, in order
urlQueryPairs(u) == QueryPairs(Split(u.RawQuery, "&"))

\* URL.Query: url.Values, a map from key to the list of its values
urlQuery(u) ==
  [k \in {urlQueryPairs(u)[i][1] : i \in DOMAIN urlQueryPairs(u)} |-> ValuesOf(urlQueryPairs(u), k)]

RECURSIVE JoinWith(_, _)
JoinWith(parts, sep) ==
  IF parts = <<>> THEN <<>>
  ELSE IF Len(parts) = 1 THEN Head(parts)
  ELSE Head(parts) \o sep \o JoinWith(Tail(parts), sep)

RECURSIVE EncodeKeys(_, _)
EncodeKeys(v, keys) ==
  IF keys = <<>> THEN <<>>
  ELSE [i \in DOMAIN v[Head(keys)] |->
          QueryEscape(Head(keys)) \o <<"=">> \o QueryEscape(v[Head(keys)][i])]
       \o EncodeKeys(v, Tail(keys))

\* Values.Encode: key=value pairs, escaped, in sorted key order
valuesEncode(v) == JoinWith(EncodeKeys(v, SortStrings(DOMAIN v)), <<"&">>)

(***************************************************************************)
(* encoding/json: Unmarshal into map[string]interface{} and Marshal        *)
(*                                                                         *)
(* A JSON text is a string.  The grammar is the one of encoding/json over  *)
(* ASCII.  A parse gives ok, the value, the position after it, and saved:  *)
(* the decoder has saved an error, that of a number no float64 can hold,   *)
(* which Unmarshal returns once the text is read.                          *)
(***************************************************************************)
JStr(s) == [t |-> "str", s |-> s, items |-> <<>>, m |-> <<>>]

JNum(s) == [t |-> "num", s |-> s, items |-> <<>>, m |-> <<>>]

\* true, false and null
JLit(s) == [t |-> "lit", s |-> s, items |-> <<>>, m |-> <<>>]

JArr(items) == [t |-> "arr", s |-> <<>>, items |-> items, m |-> <<>>]

JObj(m) == [t |-> "obj", s |-> <<>>, items |-> <<>>, m |-> m]

JNull == JLit(<<"n", "u", "l", "l">>)

JsonFail == [ok |-> FALSE, v |-> JNull, next |-> 0, saved |-> FALSE]

JsonOk(v, next) == [ok |-> TRUE, v |-> v, next |-> next, saved |-> FALSE]

\* the parse r, the decoder having saved an error before it when b holds
Saving(r, b) == [r EXCEPT !.saved = r.saved \/ (r.ok /\ b)]

\* the position of the first character from i on that is not a JSON space
SkipSpace(s, i) == i + RunLen(s, i, {" ", "\t", "\n", "\r"})

\* the character that the escape of backslash and c stands for
SimpleEscape ==
  [c \in {"\"", "\\", "/", "b", "f", "n", "r", "t"} |->
     IF c = "b" THEN "BS" ELSE IF c = "f" THEN "\f" ELSE IF c = "n" THEN "\n"
     ELSE IF c = "r" THEN "\r" ELSE IF c = "t" THEN "\t" ELSE c]

\* the value of the four hexadecimal digits of s from position j on
Hex4(s, j) ==
  4096 * UnHex(s[j]) + 256 * UnHex(s[j + 1]) + 16 * UnHex(s[j + 2]) + UnHex(s[j + 3])

\* the string that begins with c and goes on as the scan r found
ScanCons(c, r) == IF r.ok THEN JsonOk(<<c>> \o r.v, r.next) ELSE JsonFail

\* the characters of a string literal from position j (after the opening
\* quote) up to the closing quote: a character below 0x20 is an error, a
\* backslash begins one of the escapes of JSON.  The escape uXXXX of a
\* rune from 0x80 on gives a character outside the alphabet.
RECURSIVE ScanString(_, _)
ScanString(s, j) ==
  IF j > Len(s) THEN JsonFail
  ELSE IF s[j] = "\"" THEN JsonOk(<<>>, j + 1)
  ELSE IF s[j] \in Range(Control) THEN JsonFail
  ELSE IF s[j] # "\\" THEN ScanCons(s[j], ScanString(s, j + 1))
  ELSE IF j + 1 > Len(s) THEN JsonFail
  ELSE IF s[j + 1] \in DOMAIN SimpleEscape
    THEN ScanCons(SimpleEscape[s[j + 1]], ScanString(s, j + 2))
  ELSE IF s[j + 1] = "u" /\ j + 5 <= Len(s) /\ \A k \in 2..5 : IsHex(s[j + k])
    THEN ScanCons(Chr(Hex4(s, j + 2)), ScanString(s, j + 6))
  ELSE JsonFail

\* the integer and fraction part of a number literal at position i: the
\* position after them, 0 if there is none
MantissaEnd(s, i) ==
  LET j  == IF i <= Len(s) /\ s[i] = "-" THEN i + 1 ELSE i
      n  == RunLen(s, j, Range(DigitChars))
      k  == j + n
      f  == IF k <= Len(s) /\ s[k] = "." THEN RunLen(s, k + 1, Range(DigitChars)) ELSE 0
  IN  IF n = 0 \/ (n > 1 /\ s[j] = "0") THEN 0
      ELSE IF k <= Len(s) /\ s[k] = "." THEN (IF f = 0 THEN 0 ELSE k + 1 + f)
      ELSE k

\* the digits of an exponent from position p on, after its sign: the
\* position after them, 0 if there is no digit
ExponentDigitsEnd(s, p) ==
  IF RunLen(s, p, Range(DigitChars)) = 0 THEN 0 ELSE p + RunLen(s, p, Range(DigitChars))

\* the exponent part that may follow at position k: the position after it
\* (k when there is none), 0 when it is begun and has no digit
ExponentEnd(s, k) ==
  IF k > Len(s) \/ s[k] \notin {"e", "E"} THEN k
  ELSE ExponentDigitsEnd(s, IF k + 1 <= Len(s) /\ s[k + 1] \in {"+", "-"} THEN k + 2 ELSE k + 1)

\* a number literal at position i: the position after it, 0 if there is none
NumberEnd(s, i) == IF MantissaEnd(s, i) = 0 THEN 0 ELSE ExponentEnd(s, MantissaEnd(s, i))

\* the value of a string of decimal digits
RECURSIVE Atoi(_)
Atoi(d) == IF d = <<>> THEN 0 ELSE 10 * Atoi(Take(d, Len(d) - 1)) + (Ord(d[Len(d)]) - 48)

\* the exponent of a number literal: the value of what follows its e, 0
\* when it has none
ExponentValue(e) ==
  IF e = <<>> THEN 0
  ELSE IF Head(e) = "-" THEN 0 - Atoi(Tail(e))
  ELSE IF Head(e) = "+" THEN Atoi(Tail(e))
  ELSE Atoi(e)

\* the length of s without its trailing zeros
RECURSIVE TrimZerosLen(_, _)
TrimZerosLen(s, n) == IF n > 0 /\ s[n] = "0" THEN TrimZerosLen(s, n - 1) ELSE n

\* a decimal number: 0.digits times ten to the power point, digits
\* beginning and ending with a digit that is not zero (empty: the number
\* is zero), made of the digits d0 with the point after the first point
\* of them
Decimal(neg, d0, point) ==
  [neg |-> neg,
   digits |-> SubSeq(d0, RunLen(d0, 1, {"0"}) + 1, TrimZerosLen(d0, Len(d0))),
   point |-> point - RunLen(d0, 1, {"0"})]

\* the decimal of the mantissa mant, digits with at most one point, and the
\* exponent expo
DecimalOf(neg, mant, expo) ==
  Decimal(neg, CutBefore(mant, <<".">>) \o CutAfter(mant, <<".">>),
          Len(CutBefore(mant, <<".">>)) + expo)

\* strconv.ParseFloat reading the number literal s: its decimal
readFloat(s) ==
  DecimalOf(Head(s) = "-",
            CutBefore(ToLower(IF Head(s) = "-" THEN Tail(s) ELSE s), <<"e">>),
            ExponentValue(CutAfter(ToLower(s), <<"e">>)))

\* the first 17 digits of the number halfway between the largest float64,
\* 1.7976931348623157e308, and the next power of two
MaxFloatDigits ==
  <<"1", "7", "9", "7", "6", "9", "3", "1", "3", "4", "8", "6", "2", "3", "1", "5", "8">>

\* strconv.ParseFloat(s, 64) returns no range error for the decimal d: it
\* is below that number, which goes on after its first 17 digits.  For a
\* decimal that begins with those 17 digits and has more, the digits that
\* follow decide, which the model does not hold: it gives no answer.
FloatFits(d) ==
  \/ d.digits = <<>>
  \/ d.point < 309
  \/ /\ d.point = 309
     /\ IF Len(d.digits) > 17 /\ Take(d.digits, 17) = MaxFloatDigits
          THEN CHOOSE x \in {} : TRUE
          ELSE ~StrLess(MaxFloatDigits, Take(d.digits \o [i \in 1..17 |-> "0"], 17))

RECURSIVE ParseValue(_, _)
RECURSIVE ParseMembers(_, _, _)
RECURSIVE ParseElements(_, _, _)

\* the members of an object from position i (after the brace or a comma);
\* a later key replaces an earlier equal one, an error saved with the
\* earlier value stays
ParseMembers(s, i, acc) ==
  LET i1 == SkipSpace(s, i)
      k  == IF i1 <= Len(s) /\ s[i1] = "\"" THEN ScanString(s, i1 + 1) ELSE JsonFail
      i2 == SkipSpace(s, k.next)
      v  == IF k.ok /\ i2 <= Len(s) /\ s[i2] = ":" THEN ParseValue(s, i2 + 1) ELSE JsonFail
      i3 == SkipSpace(s, v.next)
      m  == [x \in DOMAIN acc \cup {k.v} |-> IF x = k.v THEN v.v ELSE acc[x]]
  IN  IF ~v.ok \/ i3 > Len(s) THEN JsonFail
      ELSE IF s[i3] = "}" THEN Saving(JsonOk(JObj(m), i3 + 1), v.saved)
      ELSE IF s[i3] = "," THEN Saving(ParseMembers(s, i3 + 1, m), v.saved)
      ELSE JsonFail

\* the elements of an array from position i (after the bracket or a comma)
ParseElements(s, i, acc) ==
  LET v  == ParseValue(s, i)
      i1 == SkipSpace(s, v.next)
  IN  IF ~v.ok \/ i1 > Len(s) THEN JsonFail
      ELSE IF s[i1] = "]" THEN Saving(JsonOk(JArr(Append(acc, v.v)), i1 + 1), v.saved)
      ELSE IF s[i1] = "," THEN Saving(ParseElements(s, i1 + 1, Append(acc, v.v)), v.saved)
      ELSE JsonFail

\* the number literal lit, which ends before position next: a float64, or
\* nothing and a saved error when no float64 can hold it
ParseNumber(lit, next) == Saving(JsonOk(JNum(lit), next), ~FloatFits(readFloat(lit)))

\* a value at position j, which is not a space
ParseValueAt(s, j) ==
  IF j > Len(s) THEN JsonFail
  ELSE IF s[j] = "{"
    THEN IF SkipSpace(s, j + 1) <= Len(s) /\ s[SkipSpace(s, j + 1)] = "}"
           THEN JsonOk(JObj(<<>>), SkipSpace(s, j + 1) + 1)
           ELSE ParseMembers(s, j + 1, <<>>)
  ELSE IF s[j] = "["
    THEN IF SkipSpace(s, j + 1) <= Len(s) /\ s[SkipSpace(s, j + 1)] = "]"
           THEN JsonOk(JArr(<<>>), SkipSpace(s, j + 1) + 1)
           ELSE ParseElements(s, j + 1, <<>>)
  ELSE IF s[j] = "\""
    THEN LET r == ScanString(s, j + 1)
         IN  IF r.ok THEN JsonOk(JStr(r.v), r.next) ELSE JsonFail
  ELSE IF HasPrefix(Drop(s, j - 1), <<"t", "r", "u", "e">>)
    THEN JsonOk(JLit(<<"t", "r", "u", "e">>), j + 4)
  ELSE IF HasPrefix(Drop(s, j - 1), <<"f", "a", "l", "s", "e">>)
    THEN JsonOk(JLit(<<"f", "a", "l", "s", "e">>), j + 5)
  ELSE IF HasPrefix(Drop(s, j - 1), <<"n", "u", "l", "l">>)
    THEN JsonOk(JNull, j + 4)
  ELSE IF NumberEnd(s, j) > 0
    THEN ParseNumber(SubSeq(s, j, NumberEnd(s, j) - 1), NumberEnd(s, j))
  ELSE JsonFail

ParseValue(s, i) == ParseValueAt(s, SkipSpace(s, i))

\* Unmarshal, r being the parse of the value the text begins with: the
\* text must hold nothing else but spaces; a value that is neither an
\* object nor null, and a saved error, are returned as errors
unmarshalMap(s, r) ==
  IF r.ok /\ SkipSpace(s, r.next) = Len(s) + 1
    THEN [err |-> ~(r.v.t = "obj" \/ r.v = JNull) \/ r.saved, isNil |-> r.v = JNull,
          obj |-> IF r.v.t = "obj" THEN r.v.m ELSE <<>>]
    ELSE [err |-> TRUE, isNil |-> FALSE, obj |-> <<>>]

\* json.Unmarshal(input, &obj) for obj a map[string]interface{}: it
\* succeeds for an object, and for null, which leaves the map nil
jsonUnmarshalMap(s) == unmarshalMap(s, ParseValue(s, 1))

\* a string as Marshal writes it: quoted, with quote and backslash escaped,
\* the control characters written as the escapes b, f, n, r and t or as
\* unicode escapes, and so the characters <, > and &
RECURSIVE EncodeStringBody(_)
EncodeStringBody(s) ==
  IF s = <<>> THEN <<>>
  ELSE (IF Head(s) \in {"\"", "\\"} THEN <<"\\", Head(s)>>
        ELSE IF Head(s) = "BS" THEN <<"\\", "b">>
        ELSE IF Head(s) = "\f" THEN <<"\\", "f">>
        ELSE IF Head(s) = "\n" THEN <<"\\", "n">>
        ELSE IF Head(s) = "\r" THEN <<"\\", "r">>
        ELSE IF Head(s) = "\t" THEN <<"\\", "t">>
        ELSE IF Head(s) \in Range(Control) \cup {"<", ">", "&"}
          THEN <<"\\", "u", "0", "0", ToLowerChar(HexDigits[(Ord(Head(s)) \div 16) + 1]),
                 ToLowerChar(HexDigits[(Ord(Head(s)) % 16) + 1])>>
        ELSE <<Head(s)>>)
       \o EncodeStringBody(Tail(s))

EncodeString(s) == <<"\"">> \o EncodeStringBody(s) \o <<"\"">>

\* the digits of a natural number
RECURSIVE Itoa(_)
Itoa(n) == IF n < 10 THEN <<Chr(48 + n)>> ELSE Itoa(n \div 10) \o <<Chr(48 + (n % 10))>>

\* strconv.AppendFloat with the format f and the shortest digits: the
\* digits with the point after the first point of them
FormatF(digits, point) ==
  IF point <= 0 THEN <<"0", ".">> \o [i \in 1..(0 - point) |-> "0"] \o digits
  ELSE IF point >= Len(digits) THEN digits \o [i \in 1..(point - Len(digits)) |-> "0"]
  ELSE Take(digits, point) \o <<".">> \o Drop(digits, point)

\* the same with the format e, the exponent being exp, as Marshal leaves
\* it: the exponent has a sign, and one digit when it is above -10
FormatE(digits, exp) ==
  <<Head(digits)>> \o (IF Len(digits) > 1 THEN <<".">> \o Tail(digits) ELSE <<>>)
  \o <<"e">> \o (IF exp < 0 THEN <<"-">> \o Itoa(0 - exp) ELSE <<"+">> \o Itoa(exp))

\* a float64 as Marshal writes it, d being the decimal it was read from:
\* the format e below 1e-6 and from 1e21 on, else the format f.  The
\* shortest digits that give the float64 back are the digits of d when
\* these are 15 at most and the number is not below the smallest normal
\* float64; for other decimals the model gives no answer.
FormatDecimal(d) ==
  IF d.digits = <<>> THEN (IF d.neg THEN <<"-", "0">> ELSE <<"0">>)
  ELSE IF Len(d.digits) > 15 \/ d.point < -306 THEN CHOOSE x \in {} : TRUE
  ELSE (IF d.neg THEN <<"-">> ELSE <<>>)
       \o (IF d.point < -5 \/ d.point > 21 THEN FormatE(d.digits, d.point - 1)
           ELSE FormatF(d.digits, d.point))

\* a float64 as Marshal writes it, read from the number literal s
FormatNumber(s) == FormatDecimal(readFloat(s))

RECURSIVE Marshal(_)
RECURSIVE MarshalItems(_)
RECURSIVE MarshalMembers(_, _)

MarshalItems(items) ==
  IF items = <<>> THEN <<>>
  ELSE <<Marshal(Head(items))>> \o MarshalItems(Tail(items))

MarshalMembers(m, keys) ==
  IF keys = <<>> THEN <<>>
  ELSE <<EncodeString(Head(keys)) \o <<":">> \o Marshal(m[Head(keys)])>>
       \o MarshalMembers(m, Tail(keys))

\* json.Marshal of a value held in an interface{}: compact, the keys of
\* every map sorted
Marshal(v) ==
  IF v.t = "str" THEN EncodeString(v.s)
  ELSE IF v.t = "num" THEN FormatNumber(v.s)
  ELSE IF v.t = "lit" THEN v.s
  ELSE IF v.t = "arr" THEN <<"[">> \o JoinWith(MarshalItems(v.items), <<",">>) \o <<"]">>
  ELSE <<"{">> \o JoinWith(MarshalMembers(v.m, SortStrings(DOMAIN v.m)), <<",">>) \o <<"}">>

(***************************************************************************)
(* sanitize.go: sanitizeJSON                                               *)
(***************************************************************************)
\* one entry of the object, as the loop of sanitizeJSON rewrites it
sanitizeEntry(k, v) ==
  IF sensitiveKeysMatchString(k) THEN JStr(defaultSensitivePlaceholder)
  ELSE IF v.t = "str" THEN JStr(sensitiveValuesReplaceAllString(v.s))
  ELSE v

\* sanitizeJSON after json.Unmarshal gave u
sanitizeUnmarshalled(input, u) ==
  IF u.err THEN input
  ELSE IF u.isNil THEN Marshal(JNull)
  ELSE Marshal(JObj([k \in DOMAIN u.obj |-> sanitizeEntry(k, u.obj[k])]))

\* sanitizeJSON(input): the output string (json.Marshal of such a map does
\* not fail, so the error result is always nil)
sanitizeJSON(input) == sanitizeUnmarshalled(input, jsonUnmarshalMap(input))

(***************************************************************************)
(* types.go: ReportLog, its content-type accessors, and the header collapse*)
(*                                                                         *)
(* A Go map that may be nil is [isNil |-> BOOLEAN, m |-> the map].         *)
(***************************************************************************)
NilMap == [isNil |-> TRUE, m |-> <<>>]

MakeMap(m) == [isNil |-> FALSE, m |-> m]

\* The loop shared by RequestContentType and ResponseContentType, as the
\* set of the values a call can return.  The loop returns at the first key,
\* in the order the range statement yields them, whose lower-cased form is
\* content-type; a map can hold several such keys (Content-Type next to
\* content-type), the order of a range over a map is not fixed, and so the
\* value of each of them is a value the call can return.  With no such
\* key, or a nil map, the call returns "".
headerContentType(h) ==
  IF h.isNil \/ ~\E k \in DOMAIN h.m : ToLower(k) = <<"c", "o", "n", "t", "e", "n", "t", "-", "t", "y", "p", "e">>
    THEN {<<>>}
    ELSE {h.m[k] : k \in {x \in DOMAIN h.m : ToLower(x) = <<"c", "o", "n", "t", "e", "n", "t", "-", "t", "y", "p", "e">>}}

\* the values r.RequestContentType() can return
RequestContentType(r) == headerContentType(r.RequestHeaders)

\* the values r.ResponseContentType() can return
ResponseContentType(r) == headerContentType(r.ResponseHeaders)

\* goHeadersToBearerHeaders indexes values[0]: it panics on an entry whose
\* value list is empty
goHeadersPanics(input) ==
  ~input.isNil /\ \E k \in DOMAIN input.m : input.m[k] = <<>>

\* goHeadersToBearerHeaders(input), when it does not panic
goHeadersToBearerHeaders(input) ==
  IF input.isNil THEN NilMap
  ELSE MakeMap([k \in DOMAIN input.m |-> input.m[k][1]])

(***************************************************************************)
(* sanitize.go: ReportLog.sanitize                                         *)
(***************************************************************************)
\* one header map after the loop over its entries
sanitizeHeaders(h) ==
  IF h.isNil THEN h
  ELSE MakeMap([k \in DOMAIN h.m |->
                  IF sensitiveKeysMatchString(k) THEN defaultSensitivePlaceholder
                  ELSE sensitiveValuesReplaceAllString(h.m[k])])

\* the query values after the loop over queries: every value of a sensitive
\* key becomes the placeholder
sanitizeQuery(q) ==
  [k \in DOMAIN q |->
     IF sensitiveKeysMatchString(k)
       THEN [i \in DOMAIN q[k] |-> defaultSensitivePlaceholder]
       ELSE q[k]]

\* changed: some key of the query is sensitive
queryChanged(q) == \E k \in DOMAIN q : sensitiveKeysMatchString(k)

ApplicationJSON == <<"a", "p", "p", "l", "i", "c", "a", "t", "i", "o", "n", "/", "j", "s", "o", "n">>

\* "sanitize URL & query", after url.Parse succeeded and u.Query() gave q:
\* the URL is written back only if some key of the query is sensitive
sanitizeURLQuery(r, u, q) ==
  IF queryChanged(q)
    THEN [err |-> FALSE,
          r |-> [r EXCEPT !.URL = urlString([u EXCEPT !.RawQuery = valuesEncode(sanitizeQuery(q))])]]
    ELSE [err |-> FALSE, r |-> r]

\* "sanitize URL & query", after url.Parse(r.URL) gave p
sanitizeURLParsed(r, p) ==
  IF p.err THEN [err |-> TRUE, r |-> r] ELSE sanitizeURLQuery(r, p.u, urlQuery(p.u))

\* the record after the "sanitize URL & query" block, and whether the
\* block returned the error of url.Parse
sanitizeURL(r) ==
  IF r.URL = <<>> THEN [err |-> FALSE, r |-> r]
  ELSE sanitizeURLParsed([r EXCEPT !.URL = sensitiveValuesReplaceAllString(r.URL),
                                   !.Path = sensitiveValuesReplaceAllString(r.Path)],
                         urlParse(sensitiveValuesReplaceAllString(r.URL)))

\* the "sanitize bodies" block, after the request body is done: the records
\* it can leave, one for each value r.ResponseContentType() can return
sanitizeResponseBody(r) ==
  {IF r.ResponseBody # <<>> /\ ct = ApplicationJSON
     THEN [r EXCEPT !.ResponseBody = sanitizeJSON(r.ResponseBody)]
     ELSE r : ct \in ResponseContentType(r)}

\* the records the "sanitize bodies" block can leave, one for each value
\* r.RequestContentType() can return and each record the second half can
\* leave then
sanitizeBodies(r) ==
  UNION {sanitizeResponseBody(IF r.RequestBody # <<>> /\ ct = ApplicationJSON
                                THEN [r EXCEPT !.RequestBody = sanitizeJSON(r.RequestBody)]
                                ELSE r) : ct \in RequestContentType(r)}

\* sanitize, after the "sanitize URL & query" block gave s: the outcomes
\* the call can have
sanitizeAfterURL(s) ==
  IF s.err THEN {s} ELSE {[err |-> FALSE, r |-> x] : x \in sanitizeBodies(s.r)}

\* r.sanitize(), as the set of the outcomes the call can have, each an
\* [err |-> an error was returned, r |-> the record as the call leaves it];
\* there are several only when a header map holds several content-type
\* keys.  On the URL error the function returns at once, with the headers,
\* URL and path rewritten and the bodies as they were.
sanitize(r) ==
  sanitizeAfterURL(sanitizeURL([r EXCEPT !.RequestHeaders = sanitizeHeaders(r.RequestHeaders),
                                         !.ResponseHeaders = sanitizeHeaders(r.ResponseHeaders)]))

(***************************************************************************)
(* Streams: an io.ReadCloser is the bytes it yields, the read position and *)
(* whether reading ends in an error instead of EOF                         *)
(***************************************************************************)
NilBody == [isNil |-> TRUE, data |-> <<>>, fail |-> FALSE]

NewStream(data, fail) == [data |-> data, pos |-> 0, fail |-> fail]

\* ioutil.NopCloser(bytes.NewBuffer(buf))
NewBuffer(buf) == NewStream(buf, FALSE)

\* ioutil.ReadAll(st): the bytes read, the error, and the stream afterwards
ReadAll(st) ==
  [buf |-> Drop(st.data, st.pos), err |-> st.fail, st |-> [st EXCEPT !.pos = Len(st.data)]]

(***************************************************************************)
(* The inputs: requests a caller makes, results the underlying transport   *)
(* gives, configurations the config endpoint serves                        *)
(***************************************************************************)
\* a GET without body, one header with two values
ReqPlain ==
  [Method |-> "GET", RawURL |-> <<"h", "t", "t", "p", ":", "/", "/", "h", "1", "/", "p">>,
   Header |-> MakeMap((<<"A", "c", "c", "e", "p", "t">> :> <<<<"t", "e", "x", "t", "/", "p", "l", "a", "i", "n">>, <<"t", "e", "x", "t", "/", "h", "t", "m", "l">>>>)),
   Body |-> NilBody]

\* a body of length zero, and two content-type keys, as a caller can fill
\* the map of a request without http.Header.Set, one parseable and the
\* other not
ReqEmptyBody ==
  [Method |-> "DELETE", RawURL |-> <<"h", "t", "t", "p", ":", "/", "/", "h", "1", "/", "e">>,
   Header |-> MakeMap((<<"C", "o", "n", "t", "e", "n", "t", "-", "T", "y", "p", "e">> :> <<<<"t", "e", "x", "t", "/", "p", "l", "a", "i", "n">>>>) @@ (<<"c", "o", "n", "t", "e", "n", "t", "-", "t", "y", "p", "e">> :> <<<<"a", "p", "p", "l", "i", "c", "a", "t", "i", "o", "n", "/", "o", "c", "t", "e", "t", "-", "s", "t", "r", "e", "a", "m">>>>)),
   Body |-> [isNil |-> FALSE, data |-> <<>>, fail |-> FALSE]]

\* a JSON POST with a sensitive header, query parameter and body key
ReqJSON ==
  [Method |-> "POST", RawURL |-> <<"h", "t", "t", "p", ":", "/", "/", "h", "2", ":", "8", "/", "p", "?", "s", "e", "c", "r", "e", "t", "=", "s", "1", "&", "q", "=", "1">>,
   Header |-> MakeMap((<<"C", "o", "n", "t", "e", "n", "t", "-", "T", "y", "p", "e">> :> <<<<"a", "p", "p", "l", "i", "c", "a", "t", "i", "o", "n", "/", "j", "s", "o", "n">>>>) @@ (<<"A", "u", "t", "h", "o", "r", "i", "z", "a", "t", "i", "o", "n">> :> <<<<"t", "o", "k">>>>)),
   Body |-> [isNil |-> FALSE, data |-> <<"{", "\"", "s", "e", "c", "r", "e", "t", "\"", ":", "\"", "s", "2", "\"", "}">>, fail |-> FALSE]]

\* the same with credentials in the URL
ReqBasicAuth ==
  [Method |-> "POST", RawURL |-> <<"h", "t", "t", "p", ":", "/", "/", "u", ":", "p", "w", "@", "h", "2", "/", "p", "?", "s", "e", "c", "r", "e", "t", "=", "s", "1">>,
   Header |-> MakeMap((<<"C", "o", "n", "t", "e", "n", "t", "-", "T", "y", "p", "e">> :> <<<<"a", "p", "p", "l", "i", "c", "a", "t", "i", "o", "n", "/", "j", "s", "o", "n">>>>)),
   Body |-> [isNil |-> FALSE, data |-> <<"{", "\"", "s", "e", "c", "r", "e", "t", "\"", ":", "\"", "s", "2", "\"", "}">>, fail |-> FALSE]]

\* a header whose value list is empty
ReqEmptyHeader ==
  [Method |-> "PUT", RawURL |-> <<"h", "t", "t", "p", ":", "/", "/", "h", "2", "/", "p">>,
   Header |-> MakeMap((<<"C", "o", "n", "t", "e", "n", "t", "-", "T", "y", "p", "e">> :> <<<<"t", "e", "x", "t", "/", "p", "l", "a", "i", "n">>>>) @@ (<<"X", "-", "E", "m", "p", "t", "y">> :> <<>>)),
   Body |-> [isNil |-> FALSE, data |-> <<>>, fail |-> FALSE]]

\* a body whose Read fails after two bytes
ReqBadBody ==
  [Method |-> "POST", RawURL |-> <<"h", "t", "t", "p", ":", "/", "/", "h", "1", "/", "q">>,
   Header |-> MakeMap((<<"C", "o", "n", "t", "e", "n", "t", "-", "T", "y", "p", "e">> :> <<<<"t", "e", "x", "t", "/", "p", "l", "a", "i", "n">>>>)),
   Body |-> [isNil |-> FALSE, data |-> <<"h", "i">>, fail |-> TRUE]]

\* a body under a content type that is not parseable
ReqBinary ==
  [Method |-> "PUT", RawURL |-> <<"h", "t", "t", "p", ":", "/", "/", "h", "2", "/", "b">>,
   Header |-> MakeMap((<<"C", "o", "n", "t", "e", "n", "t", "-", "T", "y", "p", "e">> :> <<<<"a", "p", "p", "l", "i", "c", "a", "t", "i", "o", "n", "/", "o", "c", "t", "e", "t", "-", "s", "t", "r", "e", "a", "m">>>>)),
   Body |-> [isNil |-> FALSE, data |-> <<"b", "i", "n">>, fail |-> FALSE]]

Requests == {ReqPlain, ReqEmptyBody, ReqJSON, ReqBasicAuth, ReqEmptyHeader, ReqBadBody, ReqBinary}

RespJSON ==
  [StatusCode |-> 200,
   Header |-> MakeMap((<<"C", "o", "n", "t", "e", "n", "t", "-", "T", "y", "p", "e">> :> <<<<"a", "p", "p", "l", "i", "c", "a", "t", "i", "o", "n", "/", "j", "s", "o", "n">>>>)),
   Body |-> [isNil |-> FALSE, data |-> <<"{", "\"", "p", "a", "s", "s", "w", "o", "r", "d", "\"", ":", "\"", "p", "\"", ",", "\"", "n", "\"", ":", "1", "}">>, fail |-> FALSE]]

\* a body whose Read fails after two bytes
RespText ==
  [StatusCode |-> 404,
   Header |-> MakeMap((<<"C", "o", "n", "t", "e", "n", "t", "-", "T", "y", "p", "e">> :> <<<<"t", "e", "x", "t", "/", "p", "l", "a", "i", "n">>>>)),
   Body |-> [isNil |-> FALSE, data |-> <<"n", "o">>, fail |-> TRUE]]

\* a body of length zero
RespEmpty ==
  [StatusCode |-> 204,
   Header |-> MakeMap((<<"C", "o", "n", "t", "e", "n", "t", "-", "T", "y", "p", "e">> :> <<<<"t", "e", "x", "t", "/", "p", "l", "a", "i", "n">>>>)),
   Body |-> [isNil |-> FALSE, data |-> <<>>, fail |-> FALSE]]

\* a header whose value list is empty
RespEmptyHeader ==
  [StatusCode |-> 204,
   Header |-> MakeMap((<<"X", "-", "E", "m", "p", "t", "y">> :> <<>>)),
   Body |-> [isNil |-> FALSE, data |-> <<>>, fail |-> FALSE]]

RespNoBody ==
  [StatusCode |-> 200,
   Header |-> NilMap,
   Body |-> NilBody]

\* a body under a content type that is not parseable
RespBinary ==
  [StatusCode |-> 200,
   Header |-> MakeMap((<<"C", "o", "n", "t", "e", "n", "t", "-", "T", "y", "p", "e">> :> <<<<"i", "m", "a", "g", "e", "/", "p", "n", "g">>>>)),
   Body |-> [isNil |-> FALSE, data |-> <<"p", "n", "g">>, fail |-> FALSE]]

Responses == {RespJSON, RespText, RespEmpty, RespEmptyHeader, RespNoBody, RespBinary}

NoResponse == [StatusCode |-> 0, Header |-> NilMap, Body |-> NilBody]

\* what a RoundTripper returns: a response and a nil error, or no response
\* and an error
TransportError == [isNil |-> TRUE, resp |-> NoResponse, err |-> "transportErr"]

TransportResults ==
  {[isNil |-> FALSE, resp |-> p, err |-> "nil"] : p \in Responses} \cup {TransportError}

\* *Config: nil, or the blocked domains
NilConfig == [isNil |-> TRUE, BlockedDomains |-> <<>>]

MakeConfig(domains) == [isNil |-> FALSE, BlockedDomains |-> domains]

\* h1 is blocked
ConfigBlockH1 == MakeConfig(<< <<"h", "3">>, <<"h", "1">> >>)

\* the hosts of the agent's own calls: the configuration endpoint and the
\* log endpoint
ConfigHost == <<"c", "o", "n", "f", "i", "g", ".", "b", "e", "a", "r", "e", "r", ".", "s", "h">>

LogsHost == <<"a", "g", "e", "n", "t", ".", "b", "e", "a", "r", "e", "r", ".", "s", "h">>

\* a configuration that blocks the agent's own hosts; its other entries
\* equal no hostname of a request: other case, with a port
ConfigBlockOwn ==
  MakeConfig(<< <<"H", "1">>, <<"h", "2", ":", "8">>, ConfigHost, LogsHost >>)

\* the configurations a.Config() returns, or a struct literal holds
Configs == {ConfigBlockH1, ConfigBlockOwn}

\* what the transport returns to logRecords: a response with a status and a
\* body, a response whose Body is nil, or an error
LogAnswers ==
  {[isNil |-> FALSE,
    resp |-> [StatusCode |-> s, Header |-> NilMap, Body |-> b],
    err |-> "nil"] :
     s \in {200, 201, 500},
     b \in {NilBody, [isNil |-> FALSE, data |-> <<>>, fail |-> FALSE]}}
  \cup {TransportError}

(***************************************************************************)
(* bearer.go: the agent                                                    *)
(***************************************************************************)
\* the number of telemetry goroutines that may be pending at once
MaxPending == 1

VARIABLES
  SecretKey,     \* Agent.SecretKey: "" or a key
  configCache,   \* Agent.configCache
  configMutex,   \* Agent.configMutex: "free" or the goroutine that holds it
  refresher,     \* the refresh goroutine of config(): off, sleeping, or holding a fetched
                 \* config; and how many times config() has started it
  call,          \* the RoundTrip call of the caller goroutine: its position, locals and history
  tasks,         \* the goroutines started by RoundTrip's go statement, each with its record
  lastShip,      \* what the last finished telemetry goroutine did: how it ended, the
                 \* POSTs it made and the records they carried
  probe,         \* a direct call of sanitize or logRecords, as the tests make: its input and result
  callers        \* the goroutines that call RoundTrip at the same time, each at its
                 \* position in config() with what config() returned to it

vars == <<SecretKey, configCache, configMutex, refresher, call, tasks, lastShip, probe, callers>>

\* URL.Hostname: the host without a valid port and without brackets
urlHostname(u) ==
  LET c == LastIndex(u.Host, <<":">>)
      h == IF c > 0 /\ validOptionalPort(Drop(u.Host, c - 1)) THEN Take(u.Host, c - 1) ELSE u.Host
  IN  IF HasPrefix(h, <<"[">>) /\ Len(h) >= 2 /\ h[Len(h)] = "]"
        THEN SubSeq(h, 2, Len(h) - 1) ELSE h

\* URL.Path: the decoded path
urlPath(u) == UnescapeFrom(u.RawPath, 1, FALSE)

\* isParseableContentType.MatchString: (?i)json|text|xml|x-www-form-urlencoded
\* occurs somewhere in the value
isParseableContentType(s) ==
  \E m \in { <<"j","s","o","n">>, <<"t","e","x","t">>, <<"x","m","l">>,
             <<"x","-","w","w","w","-","f","o","r","m","-","u","r","l","e","n","c","o","d","e","d">> } :
    Contains(ToLower(s), m)

\* a faulty isAvailable: telemetry runs without a secret key
isAvailableAlways == TRUE

\* Agent.isAvailable
isAvailable == SecretKey # ""

\* net/http removeEmptyPort(host): a colon that ends the host, with no
\* port after it, is dropped
removeEmptyPort(host) ==
  IF LastIndex(host, <<":">>) > LastIndex(host, <<"]">>) /\ host[Len(host)] = ":"
    THEN Take(host, Len(host) - 1)
  ELSE host

\* httpguts.IsTokenRune: the characters of an HTTP token (but the grave
\* accent, which no string of the module can hold)
TokenChars ==
  Alnum \cup {"!", "#", "$", "%", "&", "'", "*", "+", "-", ".", "^", "_", "|", "~"}

\* net/http validMethod(method): a text that is not empty and has token
\* characters only; the method is a string, read character by character
validMethod(method) ==
  /\ Len(method) > 0
  /\ \A i \in 1..Len(method) : SubSeq(method, i, i) \in TokenChars

\* http.NewRequest after url.Parse returned parsed: an empty method is GET;
\* no request for a method that is not a token and for an address that
\* does not parse; URL.Host loses an empty port.  Header is what the caller
\* has put in the request since.
MakeRequestFrom(q, parsed) ==
  IF parsed.err \/ (q.Method # "" /\ ~validMethod(q.Method))
    THEN CHOOSE x \in {} : TRUE
  ELSE [Method |-> IF q.Method = "" THEN "GET" ELSE q.Method,
        URL |-> [parsed.u EXCEPT !.Host = removeEmptyPort(@)],
        Header |-> q.Header]

\* the request handed to RoundTrip, as http.NewRequest(q.Method, q.RawURL,
\* body) builds it for a caller or for http.Client.Get
MakeRequest(q) == MakeRequestFrom(q, urlParse(q.RawURL))

\* the requests of the callers
NewRequests == [q \in Requests |-> MakeRequest(q)]

NoRequest == [Method |-> "", URL |-> NoURL, Header |-> NilMap]

NoRecord ==
  [Protocol |-> <<>>, Path |-> <<>>, Hostname |-> <<>>, Method |-> "", Type |-> "",
   StatusCode |-> 0, URL |-> <<>>, RequestHeaders |-> NilMap, RequestBody |-> <<>>,
   ResponseHeaders |-> NilMap, ResponseBody |-> <<>>]

\* newRecord panics: on resp.StatusCode for a nil response, on values[0]
\* for a header with no value
newRecordPanics(req, tr) ==
  tr.isNil \/ goHeadersPanics(req.Header) \/ goHeadersPanics(tr.resp.Header)

\* the composite literal at the top of newRecord
rawRecord(req, resp) ==
  [Protocol |-> req.URL.Scheme, Path |-> urlPath(req.URL), Hostname |-> urlHostname(req.URL),
   Method |-> req.Method, Type |-> "REQUEST_END", StatusCode |-> resp.StatusCode,
   URL |-> urlString(req.URL),
   RequestHeaders |-> goHeadersToBearerHeaders(req.Header), RequestBody |-> <<>>,
   ResponseHeaders |-> goHeadersToBearerHeaders(resp.Header), ResponseBody |-> <<>>]

\* newRecord reads the response body: no transport error, a body, and a
\* parseable content type among the REQUEST headers (as the source has it).
\* The set of the answers the condition can give, one for each value
\* record.RequestContentType() can return.
capturesResponseBody(rec, tr, respBodyRef) ==
  {tr.err = "nil" /\ respBodyRef # "nil" /\ isParseableContentType(ct) :
     ct \in RequestContentType(rec)}

\* newRecord reads the retained request copy: a reader, and a parseable
\* content type among the RESPONSE headers (as the source has it).  The set
\* of the answers the condition can give.
capturesRequestBody(rec, reqReaderRef) ==
  {reqReaderRef # "nil" /\ isParseableContentType(ct) : ct \in ResponseContentType(rec)}

\* The streams of one call.  req.Body is st[reqBodyRef], reqReader is
\* st[reqReaderRef], resp.Body is st[respBodyRef]; a reference is "nil" or
\* the name of a stream.
StreamNames == {"reqOrig", "reqCopy", "reqReader", "respOrig", "respCopy", "respReader"}

NoStreams == [n \in StreamNames |-> NewBuffer(<<>>)]

\* a faulty last block: the record is returned as built, sanitize is not run
newRecordUnsanitized(rec, st, respBodyRef, reads) ==
  {[record |-> rec, raw |-> rec, sanitizeErr |-> FALSE, st |-> st,
    respBodyRef |-> respBodyRef, reads |-> reads]}

\* newRecord, last block, after record.sanitize() had the outcome s; its
\* error is only logged
newRecordSanitized(raw, s, st, respBodyRef, reads) ==
  [record |-> s.r, raw |-> raw, sanitizeErr |-> s.err, st |-> st,
   respBodyRef |-> respBodyRef, reads |-> reads]

\* newRecord, last block: record.sanitize(), one result for each outcome
\* the call can have
newRecordSanitize(rec, st, respBodyRef, reads) ==
  {newRecordSanitized(rec, s, st, respBodyRef, reads) : s \in sanitize(rec)}

\* newRecord, second block: the retained copy of the request body is read
\* into the record, or not, as the condition answers
newRecordRequestBody(rec, st, reqReaderRef, respBodyRef, reads) ==
  UNION {newRecordSanitize(
           IF c THEN [rec EXCEPT !.RequestBody = ReadAll(st[reqReaderRef]).buf] ELSE rec,
           IF c THEN [st EXCEPT ![reqReaderRef] = ReadAll(st[reqReaderRef]).st] ELSE st,
           respBodyRef, reads) : c \in capturesRequestBody(rec, reqReaderRef)}

\* a faulty first block: the response body is read into the record and
\* resp.Body is left as it is, read to its end
newRecordResponseBodyConsumed(rec, tr, st, reqReaderRef, respBodyRef) ==
  UNION {newRecordRequestBody(
           IF c THEN [rec EXCEPT !.ResponseBody = ReadAll(st[respBodyRef]).buf] ELSE rec,
           IF c THEN [st EXCEPT ![respBodyRef] = ReadAll(st[respBodyRef]).st] ELSE st,
           reqReaderRef, respBodyRef,
           IF c THEN 1 ELSE 0) : c \in capturesResponseBody(rec, tr, respBodyRef)}

\* newRecord, first block: the response body is read into the record, or
\* not, as the condition answers, and resp.Body becomes a fresh reader over
\* the bytes read
newRecordResponseBody(rec, tr, st, reqReaderRef, respBodyRef) ==
  UNION {newRecordRequestBody(
           IF c THEN [rec EXCEPT !.ResponseBody = ReadAll(st[respBodyRef]).buf] ELSE rec,
           IF c THEN [st EXCEPT ![respBodyRef] = ReadAll(st[respBodyRef]).st,
                                !["respReader"] = ReadAll(NewBuffer(ReadAll(st[respBodyRef]).buf)).st,
                                !["respCopy"] = NewBuffer(ReadAll(st[respBodyRef]).buf)]
                ELSE st,
           reqReaderRef,
           IF c THEN "respCopy" ELSE respBodyRef,
           IF c THEN 1 ELSE 0) : c \in capturesResponseBody(rec, tr, respBodyRef)}

\* newRecord(req, resp, start, end, reqReader, logger, roundtripError), when
\* it does not panic, as the set of the results the call can have: the
\* record it returns, the streams and resp.Body afterwards, the number of
\* ReadAll calls on the bodies of the exchange, and whether sanitize
\* returned an error (which is only logged)
newRecord(req, tr, st, reqReaderRef, respBodyRef) ==
  newRecordResponseBody(rawRecord(req, tr.resp), tr, st, reqReaderRef, respBodyRef)

NoRead == [did |-> FALSE, buf |-> <<>>, err |-> FALSE]

\* what RoundTrip returned: whether it returned, the response (nil, or its
\* status code and headers) and the error
NoResult ==
  [returned |-> FALSE, respNil |-> TRUE, StatusCode |-> 0, Header |-> NilMap, err |-> "nil"]

\* return nil, err
ReturnError(err) == [NoResult EXCEPT !.returned = TRUE, !.err = err]

NoTransportResult == [isNil |-> TRUE, resp |-> NoResponse, err |-> "nil"]

\* the caller goroutine between two calls
IdleCall ==
  [pc |-> "idle", input |-> ReqPlain, req |-> NoRequest, reqBodyRef |-> "nil",
   reqReaderRef |-> "nil", st |-> NoStreams, cfg |-> NilConfig,
   tr |-> NoTransportResult, respBodyRef |-> "nil", record |-> NoRecord,
   raw |-> NoRecord, sanitizeErr |-> FALSE, result |-> NoResult,
   \* history of the call, for the properties
   blocked |-> FALSE, transportCalls |-> 0, transportRead |-> NoRead,
   callerRead |-> NoRead, agentReads |-> 0, spawned |-> 0, recordBuilt |-> FALSE,
   builtBeforeReturn |-> FALSE, panicAt |-> "none", flushed |-> FALSE]

\* no direct call is under way
NoProbe ==
  [op |-> "none", done |-> FALSE, rec |-> NoRecord, out |-> NoRecord, err |-> FALSE,
   again |-> FALSE, out2 |-> NoRecord, err2 |-> FALSE,
   records |-> <<>>, answer |-> TransportError, posts |-> 0,
   input |-> NilMap, ret |-> NilMap, panics |-> FALSE]

\* no telemetry goroutine has finished yet
NoShip == [outcome |-> "none", posts |-> 0, logs |-> 0]

Init ==
  /\ probe = NoProbe
  /\ SecretKey \in {"", "sk"}
  \* Init(secretKey) leaves the cache nil; a struct literal may set it, as
  \* the blocked-domain test does
  /\ configCache \in {NilConfig} \cup Configs
  /\ configMutex = "free"
  /\ refresher = [pc |-> "off", newConfig |-> NilConfig, started |-> 0]
  /\ callers = <<>>
  /\ call = IdleCall
  /\ tasks = <<>>
  /\ lastShip = NoShip

\* The caller invokes RoundTrip(req).  (A call that ended leaves its state
\* in place until the next one starts.)
RoundTripBegin(q) ==
  /\ call.pc \in {"idle", "done", "panic"}
  /\ Len(tasks) < MaxPending
  /\ call' = [IdleCall EXCEPT
                !.pc = "config", !.input = q, !.req = NewRequests[q],
                !.reqBodyRef = IF q.Body.isNil THEN "nil" ELSE "reqOrig",
                !.st = [NoStreams EXCEPT !["reqOrig"] = NewStream(q.Body.data, q.Body.fail)]]
  /\ UNCHANGED <<SecretKey, configCache, configMutex, refresher, tasks, lastShip, probe, callers>>

\* config(): Lock; the cache is set: return it (the deferred Unlock runs)
ConfigCached ==
  /\ call.pc = "config"
  /\ configMutex = "free"
  /\ ~configCache.isNil
  /\ call' = [call EXCEPT !.pc = "check", !.cfg = configCache]
  /\ UNCHANGED <<SecretKey, configCache, configMutex, refresher, tasks, lastShip, probe, callers>>

\* config(): Lock; the cache is nil: the fetch starts with the mutex held
ConfigLock ==
  /\ call.pc = "config"
  /\ configMutex = "free"
  /\ configCache.isNil
  /\ configMutex' = "caller"
  /\ call' = [call EXCEPT !.pc = "fetch"]
  /\ UNCHANGED <<SecretKey, configCache, refresher, tasks, lastShip, probe, callers>>

\* a faulty first fetch: a failure is cached as an empty configuration and
\* the refresh goroutine is started all the same
ConfigFetchCachesFailure(c) ==
  /\ call.pc = "fetch"
  /\ configCache' = IF c.isNil THEN MakeConfig(<<>>) ELSE c
  /\ configMutex' = "free"
  /\ refresher' = [pc |-> "sleep", newConfig |-> NilConfig, started |-> refresher.started + 1]
  /\ call' = [call EXCEPT !.pc = "check", !.cfg = c]
  /\ UNCHANGED <<SecretKey, tasks, lastShip, probe, callers>>

\* config(): a.Config() returns c (NilConfig with an error).  On an error
\* config returns nil; otherwise the cache is set, the refresh goroutine is
\* started and the cache is returned.
ConfigFetch(c) ==
  /\ call.pc = "fetch"
  /\ configCache' = c
  /\ configMutex' = "free"
  /\ refresher' = IF c.isNil THEN refresher ELSE [pc |-> "sleep", newConfig |-> NilConfig, started |-> refresher.started + 1]
  /\ call' = [call EXCEPT !.pc = "check", !.cfg = c]
  /\ UNCHANGED <<SecretKey, tasks, lastShip, probe, callers>>

\* a faulty comparison: against the host with its port, not the hostname
isBlockedHost(cfg, req) ==
  \E i \in DOMAIN cfg.BlockedDomains : cfg.BlockedDomains[i] = req.URL.Host

\* the blocked domains contain the hostname of the request
isBlocked(cfg, req) ==
  \E i \in DOMAIN cfg.BlockedDomains : cfg.BlockedDomains[i] = urlHostname(req.URL)

\* RoundTrip: the loop over a.config().BlockedDomains.  The selector on a
\* nil *Config is a nil pointer dereference.
CheckBlocked ==
  /\ call.pc = "check"
  /\ call' = IF call.cfg.isNil
               THEN [call EXCEPT !.pc = "panic", !.panicAt = "config"]
             ELSE IF isBlocked(call.cfg, call.req)
               THEN [call EXCEPT !.pc = "done", !.blocked = TRUE,
                       !.result = ReturnError("ErrBlockedDomain")]
             ELSE [call EXCEPT !.pc = "body"]
  /\ UNCHANGED <<SecretKey, configCache, configMutex, refresher, tasks, lastShip, probe, callers>>

\* RoundTrip reads and duplicates the request body
duplicatesRequestBody(c) == c.reqBodyRef # "nil" /\ isAvailable

\* RoundTrip: the block "if req.Body != nil && a.isAvailable()"
DupRequestBody ==
  /\ call.pc = "body"
  /\ LET rd == ReadAll(call.st[call.reqBodyRef])
     IN  call' =
           IF ~duplicatesRequestBody(call) THEN [call EXCEPT !.pc = "transport"]
           ELSE IF rd.err
             THEN [call EXCEPT !.pc = "done", !.st[call.reqBodyRef] = rd.st,
                     !.agentReads = @ + 1,
                     !.result = ReturnError("readErr")]
           ELSE [call EXCEPT !.pc = "transport", !.st[call.reqBodyRef] = rd.st,
                   !.st["reqReader"] = NewBuffer(rd.buf), !.st["reqCopy"] = NewBuffer(rd.buf),
                   !.reqReaderRef = "reqReader", !.reqBodyRef = "reqCopy",
                   !.agentReads = @ + 1]
  /\ UNCHANGED <<SecretKey, configCache, configMutex, refresher, tasks, lastShip, probe, callers>>

\* RoundTrip: a.transport().RoundTrip(req) returns tr.  A transport that
\* answers has sent the request body, reading req.Body to its end; one that
\* fails has not read it.
TransportRoundTrip(tr) ==
  /\ call.pc = "transport"
  /\ LET reads == ~tr.isNil /\ call.reqBodyRef # "nil"
         rd    == ReadAll(call.st[call.reqBodyRef])
     IN  call' = [call EXCEPT
                    !.pc = IF isAvailable THEN "record" ELSE "return",
                    !.tr = tr,
                    !.respBodyRef = IF tr.isNil \/ tr.resp.Body.isNil THEN "nil" ELSE "respOrig",
                    !.st = IF reads
                             THEN [@ EXCEPT ![call.reqBodyRef] = rd.st,
                                            !["respOrig"] = NewStream(tr.resp.Body.data, tr.resp.Body.fail)]
                             ELSE [@ EXCEPT !["respOrig"] = NewStream(tr.resp.Body.data, tr.resp.Body.fail)],
                    !.transportCalls = @ + 1,
                    !.transportRead = IF reads THEN [did |-> TRUE, buf |-> rd.buf, err |-> rd.err]
                                      ELSE NoRead]
  /\ UNCHANGED <<SecretKey, configCache, configMutex, refresher, tasks, lastShip, probe, callers>>

\* the call after newRecord returned n
recordBuilt(c, n) ==
  [c EXCEPT !.pc = "spawn", !.record = n.record, !.raw = n.raw,
            !.sanitizeErr = n.sanitizeErr, !.st = n.st,
            !.respBodyRef = n.respBodyRef, !.agentReads = @ + n.reads,
            !.recordBuilt = TRUE, !.builtBeforeReturn = TRUE]

\* RoundTrip: record := newRecord(...), in the goroutine of the caller
BuildRecord ==
  /\ call.pc = "record"
  /\ IF newRecordPanics(call.req, call.tr)
       THEN call' = [call EXCEPT !.pc = "panic", !.panicAt = "newRecord"]
       ELSE \E n \in newRecord(call.req, call.tr, call.st, call.reqReaderRef,
                               call.respBodyRef) :
              call' = recordBuilt(call, n)
  /\ UNCHANGED <<SecretKey, configCache, configMutex, refresher, tasks, lastShip, probe, callers>>

\* RoundTrip: the go statement; the new goroutine holds the record
SpawnTask ==
  /\ call.pc = "spawn"
  /\ tasks' = Append(tasks, [record |-> call.record, raw |-> call.raw,
                             sanitizeErr |-> call.sanitizeErr])
  /\ call' = [call EXCEPT !.pc = "return", !.spawned = @ + 1]
  /\ UNCHANGED <<SecretKey, configCache, configMutex, refresher, lastShip, probe, callers>>

\* RoundTrip: return resp, roundtripError
Return ==
  /\ call.pc = "return"
  /\ call' = [call EXCEPT !.pc = "returned",
                !.result = [returned |-> TRUE, respNil |-> call.tr.isNil,
                            StatusCode |-> call.tr.resp.StatusCode,
                            Header |-> call.tr.resp.Header, err |-> call.tr.err]]
  /\ UNCHANGED <<SecretKey, configCache, configMutex, refresher, tasks, lastShip, probe, callers>>

\* the caller reads the body of the response it was given, if there is one
CallerReadsBody ==
  /\ call.pc = "returned"
  /\ call' =
       IF call.respBodyRef = "nil" THEN [call EXCEPT !.pc = "done"]
       ELSE LET rd == ReadAll(call.st[call.respBodyRef])
            IN  [call EXCEPT !.pc = "done", !.st[call.respBodyRef] = rd.st,
                   !.callerRead = [did |-> TRUE, buf |-> rd.buf, err |-> rd.err]]
  /\ UNCHANGED <<SecretKey, configCache, configMutex, refresher, tasks, lastShip, probe, callers>>

\* the caller invokes agent.Flush() after its call: Flush returns nil at
\* once, whatever the telemetry goroutines are doing
Flush ==
  /\ call.pc = "done"
  /\ ~call.flushed
  /\ call' = [call EXCEPT !.flushed = TRUE]
  /\ UNCHANGED <<SecretKey, configCache, configMutex, refresher, tasks, lastShip, probe, callers>>

\* a faulty logRecords: the POST is made even without records
logRecordsAlwaysPosts(records, answer) ==
  IF answer.err # "nil"
    THEN [posts |-> 1, logs |-> Len(records), err |-> TRUE, panics |-> FALSE]
  ELSE IF answer.isNil \/ answer.resp.Body.isNil
    THEN [posts |-> 1, logs |-> Len(records), err |-> FALSE, panics |-> TRUE]
  ELSE [posts |-> 1, logs |-> Len(records), err |-> answer.resp.StatusCode # 200,
        panics |-> FALSE]

\* logRecords(records) when a.transport().RoundTrip(req) returns answer:
\* the calls of the transport it makes, the records in the body of the
\* POST, whether it returns an error, and whether it panics instead of
\* returning.  No record: nil, without a call.  Otherwise one POST; an
\* error of the transport is returned wrapped; then comes
\* defer ret.Body.Close(), a method call on the interface value ret.Body,
\* which panics when Body is nil; then nil for status 200 and an error for
\* any other status.
logRecords(records, answer) ==
  IF Len(records) < 1
    THEN [posts |-> 0, logs |-> 0, err |-> FALSE, panics |-> FALSE]
  ELSE IF answer.err # "nil"
    THEN [posts |-> 1, logs |-> Len(records), err |-> TRUE, panics |-> FALSE]
  ELSE IF answer.isNil \/ answer.resp.Body.isNil
    THEN [posts |-> 1, logs |-> Len(records), err |-> FALSE, panics |-> TRUE]
  ELSE [posts |-> 1, logs |-> Len(records), err |-> answer.resp.StatusCode # 200,
        panics |-> FALSE]

\* how the telemetry goroutine ends after logRecords had the result l: a
\* panic is recovered by the deferred function and logged as an error, an
\* error is logged as a warning, nil is not logged
shipped(l) ==
  [outcome |-> IF l.panics THEN "panic" ELSE IF l.err THEN "warn" ELSE "ok",
   posts |-> l.posts, logs |-> l.logs]

RemoveAt(s, i) == SubSeq(s, 1, i - 1) \o SubSeq(s, i + 1, Len(s))

\* a faulty shipment: the POST goes through the agent's own RoundTrip, which
\* looks the log endpoint up in the blocked domains and, when it lets the
\* request through, starts a telemetry goroutine for it
TaskLogRecordsIntercepted(i, answer) ==
  /\ i \in DOMAIN tasks
  /\ LET blocked == \E d \in DOMAIN configCache.BlockedDomains :
                       configCache.BlockedDomains[d] = LogsHost
     IN  /\ lastShip' = IF blocked THEN [outcome |-> "warn", posts |-> 0, logs |-> 0]
                        ELSE shipped(logRecords(<<tasks[i].record>>, answer))
         /\ tasks' = IF blocked THEN RemoveAt(tasks, i)
                     ELSE Append(RemoveAt(tasks, i),
                                 [record |-> NoRecord, raw |-> NoRecord, sanitizeErr |-> FALSE])
  /\ UNCHANGED <<SecretKey, configCache, configMutex, refresher, call, probe, callers>>

\* a telemetry goroutine runs: a.logRecords([]reportLog{record}), a method
\* with a value receiver, so that the Agent struct is copied without the
\* mutex; the transport returns answer.  An error is logged as a warning, a
\* panic of logRecords is recovered and logged; the goroutine ends.
TaskLogRecords(i, answer) ==
  /\ i \in DOMAIN tasks
  /\ lastShip' = shipped(logRecords(<<tasks[i].record>>, answer))
  /\ tasks' = RemoveAt(tasks, i)
  /\ UNCHANGED <<SecretKey, configCache, configMutex, refresher, call, probe, callers>>

\* the refresh goroutine: after the sleep, a.Config() returns c; an error is
\* logged and the loop sleeps again
RefreshFetch(c) ==
  /\ refresher.pc = "sleep"
  /\ refresher' = IF c.isNil THEN refresher ELSE [refresher EXCEPT !.pc = "fetched", !.newConfig = c]
  /\ UNCHANGED <<SecretKey, configCache, configMutex, call, tasks, lastShip, probe, callers>>

\* a faulty store: the new blocked domains are added to the cached ones
RefreshStoreMerged ==
  /\ refresher.pc = "fetched"
  /\ configMutex = "free"
  /\ configCache' = MakeConfig(configCache.BlockedDomains \o refresher.newConfig.BlockedDomains)
  /\ refresher' = [refresher EXCEPT !.pc = "sleep", !.newConfig = NilConfig]
  /\ UNCHANGED <<SecretKey, configMutex, call, tasks, lastShip, probe, callers>>

\* the refresh goroutine: Lock; a.configCache = newConfig; Unlock
RefreshStore ==
  /\ refresher.pc = "fetched"
  /\ configMutex = "free"
  /\ configCache' = refresher.newConfig
  /\ refresher' = [refresher EXCEPT !.pc = "sleep", !.newConfig = NilConfig]
  /\ UNCHANGED <<SecretKey, configMutex, call, tasks, lastShip, probe, callers>>

Next ==
  \/ \E q \in Requests : RoundTripBegin(q)
  \/ ConfigCached
  \/ ConfigLock
  \/ \E c \in Configs \cup {NilConfig} : ConfigFetch(c)
  \/ CheckBlocked
  \/ DupRequestBody
  \/ \E tr \in TransportResults : TransportRoundTrip(tr)
  \/ BuildRecord
  \/ SpawnTask
  \/ Return
  \/ CallerReadsBody
  \/ Flush
  \/ \E i \in 1..MaxPending, answer \in LogAnswers : TaskLogRecords(i, answer)
  \/ \E c \in Configs \cup {NilConfig} : RefreshFetch(c)
  \/ RefreshStore

Spec == Init /\ [][Next]_vars

(***************************************************************************)
(* Direct calls of sanitize and logRecords, as TestSanitize and            *)
(* TestAgent_logRecords make them                                          *)
(***************************************************************************)
\* the number of records a direct call of logRecords is given, at most
MaxRecords == 2

\* the record of TestSanitize that holds nothing sensitive
saneReport ==
  [Protocol |-> <<"h", "t", "t", "p", "s">>, Path |-> <<"/", "s", "a", "m", "p", "l", "e">>, Hostname |-> <<"a", "p", "i", ".", "e", "x", "a", "m", "p", "l", "e", ".", "c", "o", "m">>, Method |-> "GET", Type |-> "REQUEST_END",
   StatusCode |-> 200, URL |-> <<"h", "t", "t", "p", ":", "/", "/", "a", "p", "i", ".", "e", "x", "a", "m", "p", "l", "e", ".", "c", "o", "m", "/", "s", "a", "m", "p", "l", "e">>,
   RequestHeaders |-> MakeMap(<<"A", "c", "c", "e", "p", "t">> :> <<"a", "p", "p", "l", "i", "c", "a", "t", "i", "o", "n", "/", "j", "s", "o", "n">>),
   RequestBody |-> <<"{", "\"", "b", "o", "d", "y", "\"", ":", "\"", "d", "a", "t", "a", "\"", "}">>,
   ResponseHeaders |-> MakeMap(<<"C", "o", "n", "t", "e", "n", "t", "-", "T", "y", "p", "e">> :> <<"a", "p", "p", "l", "i", "c", "a", "t", "i", "o", "n", "/", "j", "s", "o", "n">>),
   ResponseBody |-> <<"{", "\"", "o", "k", "\"", ":", "t", "r", "u", "e", "}">>]

\* the records sanitize is called on: one header in the request or in the
\* response headers, one body with its content type on either side, a URL,
\* or a JSON body with a URL that does not parse once its values are replaced.
\* Among the values: text the value pattern matches as the engine reads
\* it, JSON with escapes, exponents, a raw line feed and a number no
\* float64 holds, URLs with an escaped host, a zone, no authority, a
\* fragment to escape and the path * escaped; and header maps with two
\* content-type keys of different values, on one side and on both.
TestRecords ==
  LET HeaderKeys == { <<"a", "u", "t", "h", "o", "r", "i", "z", "a", "t", "i", "o", "n">>,
                      <<"A", "u", "t", "h", "o", "r", "i", "z", "a", "t", "i", "o", "n">>,
                      <<"A", "u", "t", "H", "o", "r", "i", "z", "A", "t", "i", "o", "n">>,
                      <<"A", "u", "t", "h", "o", "r", "i", "z", "a", "t", "i", "o", "n", "2">>,
                      <<"2", "A", "u", "t", "h", "o", "r", "i", "z", "a", "t", "i", "o", "n">>,
                      <<"B", "l", "a", "h">>,
                      <<"C", "l", "i", "e", "n", "t", "-", "S", "e", "c", "r", "e", "t">>,
                      <<"a", "p", "i", "_", "k", "e", "y">>,
                      <<"C", "a", "r", "d", "N", "u", "m", "b", "e", "r", "s">> }
      HeaderValues == { <<"h", "e", "l", "l", "o">>,
                        <<"c", "o", "n", "t", "a", "c", "t", "@", "e", "x", "a", "m", "p", "l", "e", ".", "c", "o", "m">>,
                        <<"a", "a", "a", " ", "b", "b", "b", "@", "c", "c", "c", " ", "d", "d", "d", " ", "e", "e", "e", "@", "f", "f", "f", ".", "g", "g", "g", " ", "h", "h", "h">>,
                        <<"j", "o", "e", "@", "m", "a", "i", "l", ".", "e", "x", "a", "m", "p", "l", "e", ".", "c", "o", "m">>,
                        <<"a", "@", "e", "x", "a", "m", "p", "l", "e", ".", "c", "o", "m">>,
                        <<"4", "2", "4", "2", "4", "2", "4", "2", "4", "2", "4", "2", "4", "2", "4", "2">>,
                        <<"4", "2", "4", "2", " ", "4", "2", "4", "2", "-", "4", "2", "4", "2", " ", "4", "2", "4", "2">>,
                        <<"a", "GRAVE", "b", "@", "c">>,
                        <<"\\", "d", "\\", "d", "\\", "d", "\\", "d", "\\", "d", "\\", "d", "\\", "d", "\\", "d", "\\", "d", "\\", "d", "\\", "d", "\\", "d", "\\", "d", " ", "\\", "d">>,
                        <<>> }
      ContentTypes == { <<"a", "p", "p", "l", "i", "c", "a", "t", "i", "o", "n", "/", "j", "s", "o", "n">>,
                        <<"a", "p", "p", "l", "i", "c", "a", "t", "i", "o", "n", "/", "j", "s", "o", "n", ";", " ", "c", "h", "a", "r", "s", "e", "t", "=", "u", "t", "f", "-", "8">>,
                        <<"t", "e", "x", "t", "/", "p", "l", "a", "i", "n">> }
      Bodies == { <<"{", "\"", "a", "u", "t", "h", "o", "r", "i", "z", "a", "t", "i", "o", "n", "\"", ":", "\"", "b", "l", "a", "h", "\"", "}">>,
                <<"4", "2">>,
                <<"[", "4", "2", "]">>,
                <<"{", "}">>,
                <<"{", "\"", "a", "\"", ":", "\"", "j", "o", "e", "@", "e", "x", "a", "m", "p", "l", "e", ".", "c", "o", "m", "\"", ",", "\"", "n", "\"", ":", "1", ".", "5", "0", ",", "\"", "o", "\"", ":", "{", "\"", "s", "e", "c", "r", "e", "t", "\"", ":", "\"", "s", "\"", ",", "\"", "b", "\"", ":", "[", "1", ",", " ", "2", "]", "}", ",", "\"", "l", "\"", ":", "[", "1", "]", ",", "\"", "t", "\"", ":", "t", "r", "u", "e", ",", "\"", "z", "\"", ":", "n", "u", "l", "l", "}">>,
                <<"{", "\"", "S", "e", "c", "r", "e", "t", "\"", ":", "{", "\"", "a", "\"", ":", "1", "}", ",", "\"", "p", "a", "s", "s", "w", "o", "r", "d", "\"", ":", "7", "}">>,
                <<"{", "\"", "c", "a", "r", "d", "\"", ":", "\"", "4", "2", "4", "2", "4", "2", "4", "2", "4", "2", "4", "2", "4", "2", "4", "2", "\"", "}">>,
                <<"{", "b", "a", "d">>,
                <<"n", "u", "l", "l">>,
                <<" ", "n", "u", "l", "l", " ">>,
                <<"n", "u", "l", "l", "\n">>,
                <<"{", "\"", "b", "\"", ":", "1", ",", "\"", "a", "\"", ":", "2", "}">>,
                <<"\"", "s", "t", "r", "\"">>,
                <<" ", "{", " ", "\"", "k", "\"", " ", ":", " ", "\"", "v", "\"", " ", "}", " ">>,
                <<"{", "\"", "s", "e", "c", "r", "e", "t", "\"", ":", "\"", "a", "\\", "n", "b", "\"", ",", "\"", "k", "\"", ":", "\"", "x", "\\", "u", "0", "0", "4", "1", "\\", "t", "y", "\"", "}">>,
                <<"{", "\"", "n", "\"", ":", "1", "e", "2", ",", "\"", "s", "e", "c", "r", "e", "t", "\"", ":", "1", "e", "5", ",", "\"", "m", "\"", ":", "1", ".", "5", "e", "-", "3", "}">>,
                <<"{", "\"", "a", "\"", ":", "\"", "x", "\n", "y", "\"", "}">>,
                <<"{", "\"", "s", "e", "c", "r", "e", "t", "\"", ":", "1", "e", "9", "9", "9", "}">> }
      URLs == { <<"h", "t", "t", "p", ":", "/", "/", "a", "p", "i", ".", "e", "x", "a", "m", "p", "l", "e", ".", "c", "o", "m", "/", "s", "a", "m", "p", "l", "e">>,
              <<"h", "t", "t", "p", ":", "/", "/", "a", "p", "i", ".", "e", "x", "a", "m", "p", "l", "e", ".", "c", "o", "m", "/", "b", "l", "a", "h", "/", "b", "l", "i", "h", "?", "b", "l", "u", "h", "=", "b", "l", "o", "h", "&", "b", "l", "o", "u", "h", "=", "b", "l", "a", "n", "h">>,
              <<"h", "t", "t", "p", ":", "/", "/", "a", "p", "i", ".", "e", "x", "a", "m", "p", "l", "e", ".", "c", "o", "m", "/", "b", "l", "a", "h", "/", "b", "l", "i", "h", "?", "b", "l", "u", "h", "=", "A", "u", "t", "h", "o", "r", "i", "z", "a", "t", "i", "o", "n", "&", "a", "u", "t", "h", "o", "r", "i", "z", "a", "t", "i", "o", "n", "=", "b", "l", "a", "n", "h">>,
              <<"h", "t", "t", "p", ":", "/", "/", "a", "p", "i", ".", "e", "x", "a", "m", "p", "l", "e", ".", "c", "o", "m", "/", "e", "m", "a", "i", "l", "/", "c", "o", "n", "t", "a", "c", "t", "@", "e", "x", "a", "m", "p", "l", "e", ".", "o", "r", "g">>,
              <<"h", "t", "t", "p", ":", "/", "/", "a", "(", "b", "@", "h", "/", "p", "?", "s", "e", "c", "r", "e", "t", "=", "1">>,
              <<"h", "t", "t", "p", ":", "/", "/", "h", "/", "%", "z", "z">>,
              <<"h", "t", "t", "p", ":", "/", "/", "h", "/", "p", "?", "s", "e", "c", "r", "e", "t", "=", "a", "&", "x", "=", "1", "&", "s", "e", "c", "r", "e", "t", "=", "b">>,
              <<"h", "t", "t", "p", ":", "/", "/", "h", "/", "p", "?", "b", "l", "u", "h", "=", "A", "u", "t", "h", "o", "r", "i", "z", "a", "t", "i", "o", "n", "&", "a", "u", "t", "h", "o", "r", "i", "z", "a", "t", "i", "o", "n", "=", "b", "l", "a", "n", "h">>,
              <<"h", "t", "t", "p", ":", "/", "/", "h", "/", "e", "m", "a", "i", "l", "/", "c", "o", "n", "t", "a", "c", "t", "@", "e", "x", "a", "m", "p", "l", "e", ".", "o", "r", "g">>,
              <<"h", "t", "t", "p", ":", "/", "/", "h", "/", "c", "/", "4", "2", "4", "2", "4", "2", "4", "2", "4", "2", "4", "2", "4", "2", "4", "2">>,
              <<"h", "t", "t", "p", ":", "/", "/", "h", "/", "p", "?", "c", "a", "r", "d", "=", "4", "2", "4", "2", "-", "4", "2", "4", "2", "-", "4", "2", "4", "2", "-", "4", "2", "4", "2">>,
              <<"h", "t", "t", "p", ":", "/", "/", "u", ":", "p", "w", "@", "h", "/", "p", "?", "s", "e", "c", "r", "e", "t", "=", "s", "1">>,
              <<"h", "t", "t", "p", ":", "/", "/", "a", "%", "2", "5", "b", "/", "p", "?", "s", "e", "c", "r", "e", "t", "=", "1">>,
              <<"h", "t", "t", "p", ":", "/", "p", "?", "s", "e", "c", "r", "e", "t", "=", "1">>,
              <<"h", "t", "t", "p", ":", "/", "/", "h", "/", "p", "?", "s", "e", "c", "r", "e", "t", "=", "1", "#", "a", " ", "b">>,
              <<"h", "t", "t", "p", ":", "/", "/", "[", "f", "e", "8", "0", ":", ":", "1", "%", "2", "5", "e", "n", "0", "]", "/", "p", "?", "s", "e", "c", "r", "e", "t", "=", "1">>,
              <<"%", "2", "A", "?", "s", "e", "c", "r", "e", "t", "=", "1">>,
              <<"%", "2", "A", "?", "q", "=", "1">>,
              <<"h", "t", "t", "p", ":", "/", "/", "h", "/", "p", "?", "s", "e", "c", "r", "e", "t", "=", "%", "z", "z">>,
              <<"h", "t", "t", "p", ":", "/", "/", "h", "/", "p", "?", "a", "u", "t", "h", "o", "r", "i", "z", "a", "t", "i", "o", "n", "=", "1", "0", "0", "%", "s", "u", "r", "e", "&", "b", "l", "u", "h", "=", "A", "u", "t", "h", "o", "r", "i", "z", "a", "t", "i", "o", "n">>,
              <<"h", "t", "t", "p", ":", "/", "/", "h", "/", "p", "?", "s", "e", "c", "r", "e", "t", "=", "1", "&", "x", "=", "%", "z", "z">>,
              <<"h", "t", "t", "p", ":", "/", "/", "h", "/", "p", "?", "x", "=", "1", ";", "s", "e", "c", "r", "e", "t", "=", "2">>,
              <<"h", "t", "t", "p", ":", "/", "/", "h", "/", "p", "?", "s", "e", "c", "r", "e", "t", "=", "1", "&", "a", "=", "1", ";", "b", "=", "2">> }
      TwoContentTypes == MakeMap((<<"C", "o", "n", "t", "e", "n", "t", "-", "T", "y", "p", "e">> :> <<"a", "p", "p", "l", "i", "c", "a", "t", "i", "o", "n", "/", "j", "s", "o", "n">>)
                                 @@ (<<"c", "o", "n", "t", "e", "n", "t", "-", "t", "y", "p", "e">> :> <<"t", "e", "x", "t", "/", "p", "l", "a", "i", "n">>))
  IN  {[NoRecord EXCEPT !.RequestHeaders = MakeMap(k :> v)] : k \in HeaderKeys, v \in HeaderValues}
      \cup {[NoRecord EXCEPT !.ResponseHeaders = MakeMap(k :> v)] : k \in HeaderKeys, v \in HeaderValues}
      \cup {[NoRecord EXCEPT !.RequestHeaders = MakeMap(<<"C", "o", "n", "t", "e", "n", "t", "-", "T", "y", "p", "e">> :> ct),
                             !.RequestBody = b] : ct \in ContentTypes, b \in Bodies}
      \cup {[NoRecord EXCEPT !.ResponseHeaders = MakeMap(<<"c", "o", "n", "t", "e", "n", "t", "-", "t", "y", "p", "e">> :> ct),
                             !.ResponseBody = b] : ct \in ContentTypes, b \in Bodies}
      \cup {[NoRecord EXCEPT !.RequestHeaders = TwoContentTypes, !.RequestBody = b] : b \in Bodies}
      \cup {[NoRecord EXCEPT !.ResponseHeaders = TwoContentTypes, !.ResponseBody = b] : b \in Bodies}
      \cup {[NoRecord EXCEPT !.RequestHeaders = TwoContentTypes, !.RequestBody = <<"{", "\"", "s", "e", "c", "r", "e", "t", "\"", ":", "\"", "s", "\"", "}">>,
                             !.ResponseHeaders = TwoContentTypes, !.ResponseBody = <<"{", "\"", "s", "e", "c", "r", "e", "t", "\"", ":", "\"", "s", "\"", "}">>]}
      \cup {[NoRecord EXCEPT !.URL = u] : u \in URLs}
      \cup {saneReport}
      \cup {[NoRecord EXCEPT !.URL = <<"h", "t", "t", "p", ":", "/", "/", "u", ":", "p", "w", "@", "h", "/", "p">>,
                             !.RequestHeaders = MakeMap(<<"C", "o", "n", "t", "e", "n", "t", "-", "T", "y", "p", "e">> :> <<"a", "p", "p", "l", "i", "c", "a", "t", "i", "o", "n", "/", "j", "s", "o", "n">>),
                             !.RequestBody = <<"{", "\"", "a", "u", "t", "h", "o", "r", "i", "z", "a", "t", "i", "o", "n", "\"", ":", "\"", "b", "l", "a", "h", "\"", "}">>]}

\* a test starts: the agent is as Init(secretKey) leaves it, and the call to
\* make is sanitize on a record, or logRecords on some records with the
\* answer the log endpoint will give
\* http.Header values handed to goHeadersToBearerHeaders: nil, empty, names
\* with one value, with several, with an empty value (""), and with an
\* empty list of values
TestHeaders ==
  LET Names == { <<"A", "c", "c", "e", "p", "t">>, <<"X", "-", "I", "d">>, <<"V", "i", "a">> }
      Lists == { <<>>,
                 << <<"a">> >>,
                 << <<>> >>,
                 << <<"t", "e", "x", "t">>, <<"h", "t", "m", "l">> >>,
                 << <<>>, <<"b">>, <<"c">> >> }
  IN  {NilMap} \cup {MakeMap(m) : m \in UNION {[S -> Lists] : S \in SUBSET Names}}

InitCalls ==
  /\ SecretKey = "sk"
  /\ configCache = NilConfig
  /\ configMutex = "free"
  /\ refresher = [pc |-> "off", newConfig |-> NilConfig, started |-> 0]
  /\ callers = <<>>
  /\ call = IdleCall
  /\ tasks = <<>>
  /\ lastShip = NoShip
  /\ probe \in {[NoProbe EXCEPT !.op = "sanitize", !.rec = r] : r \in TestRecords}
          \cup {[NoProbe EXCEPT !.op = "logRecords", !.records = [i \in 1..n |-> NoRecord],
                                !.answer = s] : n \in 0..MaxRecords, s \in LogAnswers}
          \cup {[NoProbe EXCEPT !.op = "goHeaders", !.input = h] : h \in TestHeaders}

\* err := record.sanitize()
SanitizeCall ==
  /\ probe.op = "sanitize"
  /\ ~probe.done
  /\ \E s \in sanitize(probe.rec) :
       probe' = [probe EXCEPT !.done = TRUE, !.out = s.r, !.err = s.err]
  /\ UNCHANGED <<SecretKey, configCache, configMutex, refresher, call, tasks, lastShip, callers>>

\* err := record.sanitize(), once more on the record the first call left
SanitizeAgain ==
  /\ probe.op = "sanitize"
  /\ probe.done
  /\ ~probe.again
  /\ \E s \in sanitize(probe.out) :
       probe' = [probe EXCEPT !.again = TRUE, !.out2 = s.r, !.err2 = s.err]
  /\ UNCHANGED <<SecretKey, configCache, configMutex, refresher, call, tasks, lastShip, callers>>

\* err := agent.logRecords(records), or a panic with nothing returned
LogRecordsCall ==
  /\ probe.op = "logRecords"
  /\ ~probe.done
  /\ LET l == logRecords(probe.records, probe.answer)
     IN  probe' = [probe EXCEPT !.done = TRUE, !.posts = l.posts, !.err = l.err,
                                !.panics = l.panics]
  /\ UNCHANGED <<SecretKey, configCache, configMutex, refresher, call, tasks, lastShip, callers>>

\* ret := goHeadersToBearerHeaders(input), or a panic with nothing returned
GoHeadersCall ==
  /\ probe.op = "goHeaders"
  /\ ~probe.done
  /\ probe' = IF goHeadersPanics(probe.input)
                THEN [probe EXCEPT !.done = TRUE, !.panics = TRUE]
                ELSE [probe EXCEPT !.done = TRUE, !.ret = goHeadersToBearerHeaders(probe.input)]
  /\ UNCHANGED <<SecretKey, configCache, configMutex, refresher, call, tasks, lastShip, callers>>

NextCalls ==
  \/ SanitizeCall
  \/ SanitizeAgain
  \/ LogRecordsCall
  \/ GoHeadersCall

SpecCalls == InitCalls /\ [][NextCalls]_vars

(***************************************************************************)
(* Concurrent calls of RoundTrip on one agent: each goroutine goes through *)
(* config() and the rest of RoundTrip, the telemetry goroutines it starts  *)
(* ship their records, and the refresh goroutine runs step by step.  The   *)
(* steps are those between which other goroutines can run.                 *)
(***************************************************************************)
\* the number of goroutines that call RoundTrip at the same time
MaxCallers == 2

\* the number of calls each of them makes, at most
MaxCalls == 2

CallerNames == <<"c1", "c2", "c3", "c4">>

CallerIds == {CallerNames[n] : n \in 1..MaxCallers}

\* a goroutine before its first call: where it is, what config() returned
\* to its call under way, how many calls it has made, and how many of its
\* own calls of a.Config() in config() returned a configuration; where its
\* last call panicked, if it did; and of the call under way, what its
\* request was made from, the result of the transport and the record
IdleCaller ==
  [pc |-> "idle", cfg |-> NilConfig, calls |-> 0, fetched |-> 0, panicAt |-> "none",
   input |-> ReqPlain, tr |-> NoTransportResult, record |-> NoRecord, raw |-> NoRecord,
   sanitizeErr |-> FALSE]

\* an agent as Init(secretKey) or a struct literal with a cache leaves it,
\* and the goroutines about to use it
InitConfig ==
  /\ SecretKey = "sk"
  /\ configCache \in {NilConfig} \cup Configs
  /\ configMutex = "free"
  /\ refresher = [pc |-> "off", newConfig |-> NilConfig, started |-> 0]
  /\ call = IdleCall
  /\ tasks = <<>>
  /\ lastShip = NoShip
  /\ probe = NoProbe
  /\ callers = [i \in CallerIds |-> IdleCaller]

\* goroutine i calls RoundTrip(req) with the request made from q, and
\* RoundTrip calls a.config(): it is at Lock
CfgCall(i, q) ==
  /\ callers[i].pc \in {"idle", "panic"}
  /\ callers[i].calls < MaxCalls
  /\ callers' = [callers EXCEPT ![i] =
                   [IdleCaller EXCEPT
                      !.pc = "lock", !.calls = callers[i].calls + 1,
                      !.fetched = callers[i].fetched, !.input = q]]
  /\ UNCHANGED <<SecretKey, configCache, configMutex, refresher, call, tasks, lastShip, probe>>

\* config(): Lock; the cache is set: return it (the deferred Unlock runs);
\* RoundTrip goes on to the loop over the blocked domains
CfgCached(i) ==
  /\ callers[i].pc = "lock"
  /\ configMutex = "free"
  /\ ~configCache.isNil
  /\ callers' = [callers EXCEPT ![i].pc = "check", ![i].cfg = configCache]
  /\ UNCHANGED <<SecretKey, configCache, configMutex, refresher, call, tasks, lastShip, probe>>

\* a faulty Lock: the mutex is taken whoever holds it
CfgLockNoExclusion(i) ==
  /\ callers[i].pc = "lock"
  /\ configCache.isNil
  /\ configMutex' = i
  /\ callers' = [callers EXCEPT ![i].pc = "fetching"]
  /\ UNCHANGED <<SecretKey, configCache, refresher, call, tasks, lastShip, probe>>

\* config(): Lock; the cache is nil: a.Config() is called with the mutex
\* held
CfgLock(i) ==
  /\ callers[i].pc = "lock"
  /\ configMutex = "free"
  /\ configCache.isNil
  /\ configMutex' = i
  /\ callers' = [callers EXCEPT ![i].pc = "fetching"]
  /\ UNCHANGED <<SecretKey, configCache, refresher, call, tasks, lastShip, probe>>

\* a faulty first fetch: the refresh goroutine is started after a failure
\* too
CfgFetchAlwaysStarts(i, c) ==
  /\ callers[i].pc = "fetching"
  /\ configCache' = c
  /\ configMutex' = "free"
  /\ refresher' = [pc |-> "sleep", newConfig |-> NilConfig, started |-> refresher.started + 1]
  /\ callers' = [callers EXCEPT ![i].pc = IF c.isNil THEN "panic" ELSE "check",
                                ![i].cfg = c,
                                ![i].fetched = IF c.isNil THEN @ ELSE @ + 1,
                                ![i].panicAt = IF c.isNil THEN "config" ELSE "none"]
  /\ UNCHANGED <<SecretKey, call, tasks, lastShip, probe>>

\* config(): a.Config() returns c (NilConfig with an error).  On an error
\* config returns nil and RoundTrip panics on it; otherwise the cache is
\* set, the refresh goroutine is started, the cache is returned and
\* RoundTrip goes on.  The deferred Unlock runs in both cases.
CfgFetch(i, c) ==
  /\ callers[i].pc = "fetching"
  /\ configCache' = c
  /\ configMutex' = "free"
  /\ refresher' = IF c.isNil THEN refresher
                  ELSE [pc |-> "sleep", newConfig |-> NilConfig, started |-> refresher.started + 1]
  /\ callers' = [callers EXCEPT ![i].pc = IF c.isNil THEN "panic" ELSE "check",
                                ![i].cfg = c,
                                ![i].fetched = IF c.isNil THEN @ ELSE @ + 1,
                                ![i].panicAt = IF c.isNil THEN "config" ELSE "none"]
  /\ UNCHANGED <<SecretKey, call, tasks, lastShip, probe>>

\* goroutine i after its call of RoundTrip ended: its locals are gone
callerReturned(c) == [IdleCaller EXCEPT !.calls = c.calls, !.fetched = c.fetched]

\* the requests whose hostname is among the blocked domains of c
BlockedRequests == [c \in Configs |-> {q \in Requests : isBlocked(c, NewRequests[q])}]

\* RoundTrip of goroutine i: the loop over a.config().BlockedDomains, for
\* the configuration config() returned (on nil, CfgFetch has panicked); a
\* blocked hostname makes RoundTrip return ErrBlockedDomain.  The
\* configuration is not kept after the loop.
CfgCheckBlocked(i) ==
  /\ callers[i].pc = "check"
  /\ callers' = [callers EXCEPT ![i] =
                   IF callers[i].input \in BlockedRequests[callers[i].cfg]
                     THEN callerReturned(callers[i])
                   ELSE [callers[i] EXCEPT !.pc = "body", !.cfg = NilConfig]]
  /\ UNCHANGED <<SecretKey, configCache, configMutex, refresher, call, tasks, lastShip, probe>>

\* RoundTrip of goroutine i: the block "if req.Body != nil &&
\* a.isAvailable()": the body is read to its end; an error of the read is
\* logged and returned, otherwise req.Body and reqReader become readers
\* over the bytes read
CfgDupRequestBody(i) ==
  /\ callers[i].pc = "body"
  /\ callers' = [callers EXCEPT ![i] =
                   IF /\ ~callers[i].input.Body.isNil
                      /\ isAvailable
                      /\ ReadAll(NewStream(callers[i].input.Body.data,
                                           callers[i].input.Body.fail)).err
                     THEN callerReturned(callers[i])
                   ELSE [callers[i] EXCEPT !.pc = "transport"]]
  /\ UNCHANGED <<SecretKey, configCache, configMutex, refresher, call, tasks, lastShip, probe>>

\* RoundTrip of goroutine i: a.transport(), a method with a value receiver,
\* copies the Agent struct, configCache included, without the mutex, and
\* RoundTrip(req) of the transport returns tr
CfgTransportRoundTrip(i, tr) ==
  /\ callers[i].pc = "transport"
  /\ callers' = [callers EXCEPT ![i].pc = IF isAvailable THEN "record" ELSE "return",
                                ![i].tr = tr]
  /\ UNCHANGED <<SecretKey, configCache, configMutex, refresher, call, tasks, lastShip, probe>>

\* the results newRecord can have in a call of RoundTrip for the request
\* made from q to which the transport returned tr, with telemetry on:
\* none where it panics; reqReader is a reader over the bytes read from
\* the body of the request, resp.Body is the body of the response
BuiltRecords ==
  [q \in Requests, tr \in TransportResults |->
     IF newRecordPanics(NewRequests[q], tr) THEN {}
     ELSE newRecord(NewRequests[q], tr,
                    [NoStreams EXCEPT
                       !["reqReader"] = NewBuffer(ReadAll(NewStream(q.Body.data, q.Body.fail)).buf),
                       !["respOrig"] = NewStream(tr.resp.Body.data, tr.resp.Body.fail)],
                    IF q.Body.isNil THEN "nil" ELSE "reqReader",
                    IF tr.resp.Body.isNil THEN "nil" ELSE "respOrig")]

\* RoundTrip of goroutine i: record := newRecord(...), with a.logger(), a
\* second copy of the Agent struct without the mutex.  newRecord runs in
\* the goroutine of the caller: it reads the response body, sanitizes the
\* record, and its panic ends the call.
CfgBuildRecord(i) ==
  /\ callers[i].pc = "record"
  /\ IF BuiltRecords[callers[i].input, callers[i].tr] = {}
       THEN callers' = [callers EXCEPT ![i].pc = "panic", ![i].panicAt = "newRecord"]
       ELSE \E n \in BuiltRecords[callers[i].input, callers[i].tr] :
              callers' = [callers EXCEPT
                            ![i].pc = "spawn", ![i].record = n.record, ![i].raw = n.raw,
                            ![i].sanitizeErr = n.sanitizeErr]
  /\ UNCHANGED <<SecretKey, configCache, configMutex, refresher, call, tasks, lastShip, probe>>

\* RoundTrip of goroutine i: the go statement; the new goroutine holds the
\* record.  The step waits while MaxPending telemetry goroutines are
\* pending.
CfgSpawnTask(i) ==
  /\ callers[i].pc = "spawn"
  /\ Len(tasks) < MaxPending
  /\ tasks' = Append(tasks, [record |-> callers[i].record, raw |-> callers[i].raw,
                             sanitizeErr |-> callers[i].sanitizeErr])
  /\ callers' = [callers EXCEPT ![i].pc = "return"]
  /\ UNCHANGED <<SecretKey, configCache, configMutex, refresher, call, lastShip, probe>>

\* RoundTrip of goroutine i: return resp, roundtripError
CfgReturn(i) ==
  /\ callers[i].pc = "return"
  /\ callers' = [callers EXCEPT ![i] = callerReturned(callers[i])]
  /\ UNCHANGED <<SecretKey, configCache, configMutex, refresher, call, tasks, lastShip, probe>>

\* a faulty refresh loop: the mutex is taken before the fetch
LoopWakeLocked ==
  /\ refresher.pc = "sleep"
  /\ configMutex = "free"
  /\ configMutex' = "refresher"
  /\ refresher' = [refresher EXCEPT !.pc = "fetching"]
  /\ UNCHANGED <<SecretKey, configCache, call, tasks, lastShip, probe, callers>>

\* the refresh goroutine: the sleep ends and a.Config() is called, a method
\* with a value receiver: the Agent struct is copied without the mutex
LoopWake ==
  /\ refresher.pc = "sleep"
  /\ refresher' = [refresher EXCEPT !.pc = "fetching"]
  /\ UNCHANGED <<SecretKey, configCache, configMutex, call, tasks, lastShip, probe, callers>>

\* the refresh goroutine: a.Config() returns c; an error is logged and the
\* loop sleeps again
LoopFetch(c) ==
  /\ refresher.pc = "fetching"
  /\ refresher' = IF c.isNil THEN [refresher EXCEPT !.pc = "sleep"]
                  ELSE [refresher EXCEPT !.pc = "fetched", !.newConfig = c]
  /\ UNCHANGED <<SecretKey, configCache, configMutex, call, tasks, lastShip, probe, callers>>

\* the refresh goroutine: a.configMutex.Lock()
LoopLock ==
  /\ refresher.pc = "fetched"
  /\ configMutex = "free"
  /\ configMutex' = "refresher"
  /\ refresher' = [refresher EXCEPT !.pc = "store"]
  /\ UNCHANGED <<SecretKey, configCache, call, tasks, lastShip, probe, callers>>

\* the refresh goroutine: a.configCache = newConfig; a.configMutex.Unlock()
LoopStore ==
  /\ refresher.pc = "store"
  /\ configCache' = refresher.newConfig
  /\ configMutex' = "free"
  /\ refresher' = [refresher EXCEPT !.pc = "sleep", !.newConfig = NilConfig]
  /\ UNCHANGED <<SecretKey, call, tasks, lastShip, probe, callers>>

NextConfig ==
  \/ \E i \in CallerIds, q \in {ReqPlain, ReqJSON, ReqBadBody} : CfgCall(i, q)
  \/ \E i \in CallerIds : CfgCached(i)
  \/ \E i \in CallerIds : CfgLock(i)
  \/ \E i \in CallerIds, c \in Configs \cup {NilConfig} : CfgFetch(i, c)
  \/ \E i \in CallerIds : CfgCheckBlocked(i)
  \/ \E i \in CallerIds : CfgDupRequestBody(i)
  \/ \E i \in CallerIds,
          tr \in {TransportError, [isNil |-> FALSE, resp |-> RespJSON, err |-> "nil"]} :
       CfgTransportRoundTrip(i, tr)
  \/ \E i \in CallerIds : CfgBuildRecord(i)
  \/ \E i \in CallerIds : CfgSpawnTask(i)
  \/ \E i \in CallerIds : CfgReturn(i)
  \/ \E k \in 1..MaxPending,
          answer \in {[isNil |-> FALSE, resp |-> RespJSON, err |-> "nil"],
                      [isNil |-> FALSE, resp |-> RespNoBody, err |-> "nil"]} :
       TaskLogRecords(k, answer)
  \/ LoopWake
  \/ \E c \in Configs \cup {NilConfig} : LoopFetch(c)
  \/ LoopLock
  \/ LoopStore

SpecConfig == InitConfig /\ [][NextConfig]_vars

(***************************************************************************)
(* Properties of RoundTrip                                                 *)
(***************************************************************************)
\* RoundTrip has returned or panicked
CallEnded == call.pc \in {"returned", "done", "panic"}

\* the loop over the blocked domains has run
PastCheck == call.pc \notin {"idle", "config", "fetch", "check"}

\* the hostname of the request equals an entry of the configuration that
\* config() returned
HostnameBlocked ==
  /\ ~call.cfg.isNil
  /\ \E i \in DOMAIN call.cfg.BlockedDomains :
       call.cfg.BlockedDomains[i] = urlHostname(call.req.URL)

\* RoundTrip returned the pair the transport returned
ReturnedTransportPair ==
  /\ call.result.returned
  /\ call.result.respNil = call.tr.isNil
  /\ call.result.StatusCode = call.tr.resp.StatusCode
  /\ call.result.Header = call.tr.resp.Header
  /\ call.result.err = call.tr.err

\* C1: a call whose hostname equals a blocked domain returns (nil,
\* ErrBlockedDomain) with the transport not invoked, the request body not
\* read and no record built or handed to a goroutine; and ErrBlockedDomain
\* is returned only for such a call.
C1_BlockedDomain ==
  /\ (PastCheck /\ HostnameBlocked) =>
       /\ call.pc = "done"
       /\ call.result = ReturnError("ErrBlockedDomain")
       /\ call.transportCalls = 0
       /\ ~call.transportRead.did
       /\ call.agentReads = 0
       /\ call.st["reqOrig"].pos = 0
       /\ ~call.recordBuilt
       /\ call.spawned = 0
  /\ (call.result.returned /\ call.result.err = "ErrBlockedDomain") => HostnameBlocked

\* a blocked call with a request body, telemetry being enabled
C1_Witness ==
  PastCheck /\ HostnameBlocked /\ SecretKey # "" /\ call.input = ReqBadBody

\* C2: for every call that is not blocked, whatever pair the transport
\* returned is the pair RoundTrip returns to its caller, with the same
\* status code, headers and error.
C2_PassThrough ==
  (call.transportCalls = 1 /\ CallEnded) => ReturnedTransportPair

\* C3: every call ends blocked (ErrBlockedDomain, the transport not invoked)
\* or completed (the transport invoked once and its pair returned).
C3_TwoOutcomes ==
  CallEnded =>
    \/ call.result = ReturnError("ErrBlockedDomain") /\ call.transportCalls = 0
    \/ call.transportCalls = 1 /\ ReturnedTransportPair

\* C4: with telemetry enabled, once the transport has returned, whatever it
\* returned, the call does not panic in the goroutine of the caller.
C4_NoPanicInCaller ==
  (SecretKey # "" /\ call.transportCalls = 1) => call.pc # "panic"

\* C5: the record of a call is built and sanitized only once the call has
\* returned to its caller.
C5_ReturnBeforeTelemetry ==
  call.recordBuilt => call.result.returned

\* C6: with telemetry enabled, a call that invoked the transport has handed
\* one record to a telemetry goroutine when it ends, whether the transport
\* returned a response or an error.
C6_OneRecordPerCall ==
  (SecretKey # "" /\ call.transportCalls = 1 /\ CallEnded) => call.spawned = 1

\* C7: with an empty SecretKey, RoundTrip reads and replaces no body, builds
\* no record, starts no goroutine and ships nothing; the transport is called
\* at most once, and what it reads is the original request body.
C7_DisabledIsTransparent ==
  SecretKey = "" =>
    /\ call.agentReads = 0
    /\ call.reqBodyRef \in {"nil", "reqOrig"}
    /\ call.reqReaderRef = "nil"
    /\ call.respBodyRef \in {"nil", "respOrig"}
    /\ call.pc \notin {"record", "spawn"}
    /\ ~call.recordBuilt
    /\ call.spawned = 0
    /\ tasks = <<>>
    /\ lastShip = NoShip
    /\ call.transportCalls <= 1
    /\ call.transportRead.did =>
         /\ call.transportRead.buf = call.input.Body.data
         /\ call.transportRead.err = call.input.Body.fail
    /\ call.callerRead.did =>
         /\ call.callerRead.buf = call.tr.resp.Body.data
         /\ call.callerRead.err = call.tr.resp.Body.fail

\* a finished call with both bodies read, telemetry being disabled
C7_Witness ==
  /\ SecretKey = ""
  /\ call.pc = "done"
  /\ call.input = ReqJSON
  /\ call.transportRead.did
  /\ call.callerRead.did

\* C8: with telemetry enabled, the bytes the transport reads from the
\* request body are the original request body, and the bytes the caller
\* reads from the response body are those the transport produced.
C8_BodiesIntact ==
  SecretKey # "" =>
    /\ call.transportRead.did => call.transportRead.buf = call.input.Body.data
    /\ call.callerRead.did => call.callerRead.buf = call.tr.resp.Body.data

\* both bodies were duplicated and captured, then read to their end
C8_Witness ==
  /\ SecretKey # ""
  /\ call.reqBodyRef = "reqCopy"
  /\ call.respBodyRef = "respCopy"
  /\ call.transportRead.did /\ call.transportRead.buf # <<>>
  /\ call.callerRead.did /\ call.callerRead.buf # <<>>
  /\ call.record.RequestBody # <<>> /\ call.record.ResponseBody # <<>>

\* every entry of a header map with a sensitive key carries the placeholder
HeadersClean(h) ==
  h.isNil \/ \A k \in DOMAIN h.m :
               sensitiveKeysMatchString(k) => h.m[k] = defaultSensitivePlaceholder

\* every pair of a parsed query with a sensitive key carries the placeholder
PairsClean(pairs) ==
  \A i \in DOMAIN pairs :
    sensitiveKeysMatchString(pairs[i][1]) => pairs[i][2] = defaultSensitivePlaceholder

\* the query parameters of a URL text: what follows its first question mark,
\* up to the fragment
QueryClean(url) ==
  PairsClean(QueryPairs(Split(CutAfter(CutBefore(url, <<"#">>), <<"?">>), "&")))

\* every top-level entry of a decoded object with a sensitive key carries the
\* placeholder
ObjectClean(u) ==
  (~u.err /\ ~u.isNil) =>
    \A k \in DOMAIN u.obj :
      sensitiveKeysMatchString(k) => u.obj[k] = JStr(defaultSensitivePlaceholder)

\* a body: only an application/json body is looked into
BodyClean(contentType, body) ==
  (contentType = ApplicationJSON /\ body # <<>>) => ObjectClean(jsonUnmarshalMap(body))

RecordClean(r) ==
  /\ HeadersClean(r.RequestHeaders)
  /\ HeadersClean(r.ResponseHeaders)
  /\ QueryClean(r.URL)
  /\ \A ct \in RequestContentType(r) : BodyClean(ct, r.RequestBody)
  /\ \A ct \in ResponseContentType(r) : BodyClean(ct, r.ResponseBody)

\* C9: in every record handed to logRecords, each header entry, each URL
\* query parameter and each top-level entry of an application/json object
\* body whose key is sensitive carries the placeholder, also when sanitize
\* returned an error.
C9_NoSensitiveKeyShipped ==
  \A i \in DOMAIN tasks : RecordClean(tasks[i].record)

\* C10: a step that hands a record to a telemetry goroutine hands the result
\* of sanitize on the record as newRecord built it, sanitize having run
\* before the goroutine starts; and no step changes a handed record: a step
\* leaves the records alone, appends that of the call, or removes that of a
\* goroutine that ends.
C10_SanitizedBeforeHandoff ==
  [][\/ tasks' = tasks
     \/ /\ call.pc = "spawn"
        /\ call.recordBuilt
        /\ Len(tasks') = Len(tasks) + 1
        /\ tasks = SubSeq(tasks', 1, Len(tasks))
        /\ tasks'[Len(tasks')].raw = call.raw
        /\ \E s \in sanitize(call.raw) : tasks'[Len(tasks')].record = s.r
     \/ \E i \in DOMAIN tasks : tasks' = RemoveAt(tasks, i)]_vars

\* a handed record that sanitize has changed
C10_Witness ==
  /\ tasks # <<>>
  /\ tasks[1].record # tasks[1].raw
  /\ ~tasks[1].sanitizeErr
  /\ call.spawned = 1

(***************************************************************************)
(* Properties of the configuration cache                                   *)
(***************************************************************************)
\* C11: a call whose first fetch of the configuration failed (config()
\* returned nil) is neither blocked nor failed: it does not panic, and when
\* it ends the transport was invoked and its pair returned.
C11_FailedFetchProceeds ==
  (PastCheck /\ call.cfg.isNil) =>
    /\ call.pc # "panic"
    /\ ~call.blocked
    /\ CallEnded => (call.transportCalls = 1 /\ ReturnedTransportPair)

\* C12: a failed first fetch is not cached.  While the cache is absent no
\* refresh loop runs; a fetch that fails leaves the cache absent, starts no
\* loop and releases the mutex; and a config access that finds the cache
\* absent performs a synchronous fetch.
C12_FailedFetchNotCached ==
  /\ [](configCache.isNil => refresher.pc = "off")
  /\ [][/\ (call.pc = "fetch" /\ call'.pc # "fetch" /\ call'.cfg.isNil) =>
             /\ configCache'.isNil
             /\ refresher' = refresher
             /\ configMutex' = "free"
        /\ (call.pc = "config" /\ configCache.isNil /\ call' # call) =>
             /\ call'.pc = "fetch"
             /\ configMutex' = "caller"]_vars

\* a call whose fetch failed has ended; the cache is absent and no refresh
\* loop runs
C12_Witness ==
  /\ call.panicAt = "config"
  /\ call.cfg.isNil
  /\ configCache.isNil
  /\ refresher.pc = "off"
  /\ configMutex = "free"

\* C13: once a configuration is cached the cache never returns to absent
\* and the caller makes no synchronous fetch; the cache changes only by the
\* refresh loop storing the whole result of its latest successful fetch (a
\* fetch counts from the step that stores it); a failed refresh changes
\* nothing; the first successful fetch caches its result and serves it; and
\* config() serves the cached configuration.
C13_CacheIsLatestFetch ==
  [][/\ ~configCache.isNil =>
          /\ ~configCache'.isNil
          /\ call'.pc # "fetch"
          /\ configCache' # configCache =>
               (refresher.pc = "fetched" /\ configCache' = refresher.newConfig)
          /\ (call.pc = "config" /\ call'.pc # "config") =>
               (call'.pc = "check" /\ call'.cfg = configCache)
     /\ (configCache.isNil /\ ~configCache'.isNil) =>
          /\ call.pc = "fetch"
          /\ call'.cfg = configCache'
          /\ configCache' \in Configs
          /\ refresher'.pc = "sleep"
     /\ (refresher.pc = "sleep" /\ refresher'.pc = "sleep") =>
          (configCache' = configCache \/ configCache.isNil)]_vars

\* a call was served the cached configuration and the refresh loop has
\* since stored another one
C13_Witness ==
  /\ call.pc \in {"body", "transport", "record", "spawn", "return", "returned", "done"}
  /\ ~call.cfg.isNil
  /\ ~configCache.isNil
  /\ call.cfg # configCache
  /\ refresher.pc = "sleep"

(***************************************************************************)
(* Properties of logRecords                                                *)
(***************************************************************************)
\* the transport returned a response with status 200 to logRecords
Answered200 == probe.answer.err = "nil" /\ probe.answer.resp.StatusCode = 200

\* C14: logRecords with at least one record makes exactly one POST to the
\* log endpoint and returns nil if and only if the transport returned a
\* response with status 200; any other status, or an error of the
\* transport, makes it return an error.
C14_LogRecordsOnePost ==
  (probe.op = "logRecords" /\ probe.done /\ Len(probe.records) >= 1) =>
    /\ probe.posts = 1
    /\ (~probe.err /\ ~probe.panics) <=> Answered200
    /\ ~Answered200 => probe.err

\* C15: logRecords with no record returns nil and makes no POST.
C15_NoRecordsNoCall ==
  (probe.op = "logRecords" /\ probe.done /\ probe.records = <<>>) =>
    /\ probe.posts = 0
    /\ ~probe.err
    /\ ~probe.panics

\* no record was given, and the transport would have returned a response
\* with status 500
C15_Witness ==
  /\ probe.op = "logRecords"
  /\ probe.done
  /\ probe.records = <<>>
  /\ probe.answer.err = "nil"
  /\ probe.answer.resp.StatusCode = 500

(***************************************************************************)
(* Properties of sanitize                                                  *)
(***************************************************************************)
\* sanitize has been called on probe.rec and has left probe.out
Sanitized == probe.op = "sanitize" /\ probe.done

\* the header maps of a record
HeaderFields == {"RequestHeaders", "ResponseHeaders"}

\* the lower-case key l is the words a and b, joined directly or by one
\* character
TwoWords(l, a, b) ==
  \/ l = a \o b
  \/ /\ Len(l) = Len(a) + Len(b) + 1
     /\ Take(l, Len(a)) = a
     /\ Drop(l, Len(a) + 1) = b
     /\ l[Len(a) + 1] # "\n"

\* the lower-case key l is a sensitive key name
IsSensitiveName(l) ==
  \/ l \in { <<"a", "u", "t", "h", "o", "r", "i", "z", "a", "t", "i", "o", "n">>,
            <<"p", "a", "s", "s", "w", "o", "r", "d">>,
            <<"s", "e", "c", "r", "e", "t">>,
            <<"p", "a", "s", "s", "w", "d">>,
            <<"c", "r", "e", "d", "e", "n", "t", "i", "a", "l", "s">>,
            <<"m", "y", "s", "q", "l", "_", "p", "w", "d">>,
            <<"s", "t", "r", "i", "p", "e", "t", "o", "k", "e", "n">> }
  \/ \E w \in { <<<<"a", "p", "i">>, <<"k", "e", "y">>>>,
              <<<<"a", "c", "c", "e", "s", "s">>, <<"t", "o", "k", "e", "n">>>>,
              <<<<"a", "u", "t", "h">>, <<"t", "o", "k", "e", "n">>>>,
              <<<<"c", "a", "r", "d">>, <<"n", "u", "m", "b", "e", "r">>>>,
              <<<<"c", "l", "i", "e", "n", "t">>, <<"i", "d">>>>,
              <<<<"c", "l", "i", "e", "n", "t">>, <<"s", "e", "c", "r", "e", "t">>>> } : TwoWords(l, w[1], w[2])

\* the lower-case key l is a card-number name followed by one more character
IsCardNumberPlus(l) ==
  /\ l # <<>>
  /\ l[Len(l)] # "\n"
  /\ TwoWords(Take(l, Len(l) - 1), <<"c", "a", "r", "d">>, <<"n", "u", "m", "b", "e", "r">>)

\* the lower-case key l is no sensitive name and contains one
ContainsNameOnly(l) ==
  /\ ~IsSensitiveName(l)
  /\ \E i \in 1..Len(l), j \in 1..Len(l) : IsSensitiveName(SubSeq(l, i, j))

\* C16, as claimed: a header whose key is a sensitive name in any case is
\* given the placeholder, and a header whose key only contains a sensitive
\* name as a proper part is not replaced as a whole: its value gets the
\* replacement of the value pattern only.
C16_WholeKeyOnly ==
  Sanitized =>
    \A f \in HeaderFields : ~probe.rec[f].isNil =>
      \A k \in DOMAIN probe.rec[f].m :
        /\ IsSensitiveName(ToLower(k)) =>
             probe.out[f].m[k] = defaultSensitivePlaceholder
        /\ ContainsNameOnly(ToLower(k)) =>
             probe.out[f].m[k] = sensitiveValuesReplaceAllString(probe.rec[f].m[k])

\* C16, amended: a header whose key is a sensitive name in any case, or a
\* card-number name followed by one more character, is given the
\* placeholder; the value of every other header, those whose key contains a
\* sensitive name as a proper part included, gets the replacement of the
\* value pattern only.
C16_KeyPatternDecides ==
  Sanitized =>
    \A f \in HeaderFields : ~probe.rec[f].isNil =>
      \A k \in DOMAIN probe.rec[f].m :
        probe.out[f].m[k] =
          IF IsSensitiveName(ToLower(k)) \/ IsCardNumberPlus(ToLower(k))
            THEN defaultSensitivePlaceholder
            ELSE sensitiveValuesReplaceAllString(probe.rec[f].m[k])

\* a response header with a sensitive name in mixed case was given the
\* placeholder in place of another value
C16_Witness ==
  /\ Sanitized
  /\ ~probe.rec.ResponseHeaders.isNil
  /\ \E k \in DOMAIN probe.rec.ResponseHeaders.m :
       /\ k # ToLower(k)
       /\ IsSensitiveName(ToLower(k))
       /\ probe.rec.ResponseHeaders.m[k] \notin {<<>>, defaultSensitivePlaceholder}
       /\ probe.out.ResponseHeaders.m[k] = defaultSensitivePlaceholder

\* the value v is one e-mail address and nothing else: a local part and a
\* domain of letters, digits and inner dots around a single at sign
IsAddress(v) ==
  LET at == Index(v, <<"@">>)
  IN  /\ at > 1
      /\ at < Len(v)
      /\ Occurrences(v, <<"@">>) = {at}
      /\ \A i \in DOMAIN v :
           \/ i = at
           \/ v[i] \in Alnum
           \/ v[i] = "." /\ i > 1 /\ i < Len(v) /\ v[i - 1] \in Alnum /\ v[i + 1] \in Alnum

\* the address v with all of it but the final label of its domain replaced
\* by the placeholder; a domain of one label is replaced with the rest
AddressRedacted(v) ==
  IF LastIndex(v, <<".">>) < Index(v, <<"@">>) THEN defaultSensitivePlaceholder
  ELSE defaultSensitivePlaceholder \o Drop(v, LastIndex(v, <<".">>) - 1)

\* C17: in a header whose key is not sensitive, a value that is an e-mail
\* address, for a domain of any number of labels, is replaced by the
\* placeholder up to, but not including, the final label of its domain.
C17_EmailRedacted ==
  Sanitized =>
    \A f \in HeaderFields : ~probe.rec[f].isNil =>
      \A k \in DOMAIN probe.rec[f].m :
        (~sensitiveKeysMatchString(k) /\ IsAddress(probe.rec[f].m[k])) =>
          probe.out[f].m[k] = AddressRedacted(probe.rec[f].m[k])

\* the value v is a card number: 13 to 16 digits, with spaces or hyphens
\* between them or not
IsCardNumber(v) ==
  /\ v # <<>>
  /\ \A i \in DOMAIN v : v[i] \in Range(DigitChars) \cup {" ", "-"}
  /\ v[1] \in Range(DigitChars)
  /\ v[Len(v)] \in Range(DigitChars)
  /\ Cardinality({i \in DOMAIN v : v[i] \in Range(DigitChars)}) \in CardMinRepeat..CardMaxRepeat

\* C18: in a header whose key is not sensitive, a value that is a sequence
\* of 13 to 16 digits, separated by spaces or hyphens or not, is replaced by
\* the placeholder.
C18_CardNumberRedacted ==
  Sanitized =>
    \A f \in HeaderFields : ~probe.rec[f].isNil =>
      \A k \in DOMAIN probe.rec[f].m :
        (~sensitiveKeysMatchString(k) /\ IsCardNumber(probe.rec[f].m[k])) =>
          probe.out[f].m[k] = defaultSensitivePlaceholder

\* the header map and the body of each side of a record
BodySides == {<<"RequestHeaders", "RequestBody">>, <<"ResponseHeaders", "ResponseBody">>}

\* the decoded value out is what the rule makes of the entry of key k and
\* decoded value in: the placeholder for a sensitive key, the replacement
\* of the value pattern for a string, and the same value otherwise
EntryProcessed(k, in, out) ==
  IF IsSensitiveName(ToLower(k)) \/ IsCardNumberPlus(ToLower(k))
    THEN out = JStr(defaultSensitivePlaceholder)
  ELSE IF in.t = "str"
    THEN out = JStr(sensitiveValuesReplaceAllString(in.s))
  ELSE Marshal(out) = Marshal(in)

\* the decoded body out is an object with the keys of the decoded object
\* in, each entry processed
ObjectProcessed(in, out) ==
  /\ ~out.err
  /\ ~out.isNil
  /\ DOMAIN out.obj = DOMAIN in.obj
  /\ \A k \in DOMAIN in.obj : EntryProcessed(k, in.obj[k], out.obj[k])

\* the body is a JSON object
IsObject(u) == ~u.err /\ ~u.isNil

\* the rule of C19 for one side, in and out being the decoded bodies and
\* contentTypes the values the content type of the side can be read as
SideProcessed(contentTypes, in, out) ==
  (contentTypes = {ApplicationJSON} /\ IsObject(in)) => ObjectProcessed(in, out)

\* C19: when the content type of a side is exactly application/json,
\* whichever of its content-type entries is read, and its
\* body is a JSON object, the sanitized body is that object with every
\* top-level entry processed: a sensitive key has the placeholder as its
\* value whatever the type of the value, a string under another key has the
\* value pattern replaced, another value under another key is the same.
C19_JSONEntriesProcessed ==
  Sanitized =>
    \A s \in BodySides :
      SideProcessed(headerContentType(probe.rec[s[1]]),
                    jsonUnmarshalMap(probe.rec[s[2]]),
                    jsonUnmarshalMap(probe.out[s[2]]))

\* C20: sanitize leaves a body byte-identical whenever the content type of
\* its side is not exactly application/json, whichever of its content-type
\* entries is read, or the body is no JSON object,
\* the bodies 42, [42] and {} among them; and the only error it returns is
\* that of the URL, never one for a body.
C20_OtherBodiesUntouched ==
  Sanitized =>
    /\ \A s \in BodySides :
         (\/ ApplicationJSON \notin headerContentType(probe.rec[s[1]])
          \/ ~IsObject(jsonUnmarshalMap(probe.rec[s[2]]))
          \/ probe.rec[s[2]] = <<"{", "}">>) =>
           probe.out[s[2]] = probe.rec[s[2]]
    /\ probe.err => urlParse(sensitiveValuesReplaceAllString(probe.rec.URL)).err

\* the pairs of the query of a URL text that url.ParseQuery keeps: what
\* follows its first question mark, up to the fragment
QueryOf(url) == QueryPairs(Split(CutAfter(CutBefore(url, <<"#">>), <<"?">>), "&"))

\* a key or a value of a query as it reads: decoded, or as it is written
\* when it has an escape that cannot be decoded
ReadAs(s) == IF ValidEscapes(s) THEN QueryUnescape(s) ELSE s

\* the parameters among parts, the texts between the ampersands of a
\* query: each that is not empty, cut at its first equals sign into a key
\* and a value
RECURSIVE ParamsAmong(_)
ParamsAmong(parts) ==
  IF parts = <<>> THEN <<>>
  ELSE (IF Head(parts) # <<>>
          THEN << <<ReadAs(CutBefore(Head(parts), <<"=">>)),
                    ReadAs(CutAfter(Head(parts), <<"=">>))>> >>
          ELSE <<>>)
       \o ParamsAmong(Tail(parts))

\* the parameters of the query of a URL text, every one that is written
\* in it, whether url.ParseQuery keeps it or not
ParamsOf(url) == ParamsAmong(Split(CutAfter(CutBefore(url, <<"#">>), <<"?">>), "&"))

\* the query of the URL text has a sensitive key, and a value that reads as
\* a sensitive name
SensitiveKeyAndValue(pairs) ==
  /\ \E i \in DOMAIN pairs : IsSensitiveName(ToLower(pairs[i][1]))
  /\ \E i \in DOMAIN pairs : IsSensitiveName(ToLower(pairs[i][2]))

\* C21: sanitize returns no error on a record whose URL is
\* http://api.example.com/blah/blih?bluh=Authorization&authorization=blanh
\* and leaves its URL empty; more generally a URL whose query has a
\* sensitive key together with a sensitive-looking value becomes the empty
\* string.
C21_SensitiveQueryEmptiesURL ==
  (Sanitized /\ SensitiveKeyAndValue(ParamsOf(probe.rec.URL))) =>
    ~probe.err /\ probe.out.URL = <<>>

\* the key k reads as a sensitive key
IsSensitiveKey(k) == IsSensitiveName(ToLower(k)) \/ IsCardNumberPlus(ToLower(k))

\* the pairs in with the value of every sensitive key replaced by the
\* placeholder, as a set
PairsRedacted(in) ==
  {<<in[i][1], IF IsSensitiveKey(in[i][1]) THEN defaultSensitivePlaceholder ELSE in[i][2]>> :
     i \in DOMAIN in}

\* C22: sanitize is idempotent: a second call, on the record the first call
\* left, leaves a record equal to it in every field.
C22_SanitizeIdempotent ==
  (Sanitized /\ probe.again) => probe.out2 = probe.out

(***************************************************************************)
(* Properties of Flush                                                     *)
(***************************************************************************)
\* C23: when Flush has returned, every telemetry goroutine of a RoundTrip
\* call that returned before Flush was called has finished its shipping
\* attempt: none is pending.
C23_FlushShipsAll ==
  call.flushed => tasks = <<>>

(***************************************************************************)
(* Properties of newRecord                                                 *)
(***************************************************************************)
\* C29: in the record newRecord builds, before sanitize, the request body
\* is there exactly when the content type of the request is parseable, and
\* the response body exactly when the content type of the response is
\* parseable: a body of a message whose own content type is not parseable
\* is not in the record, and a body that was read in full under a parseable
\* content type of its own is.
C29_BodiesByOwnContentType ==
  call.recordBuilt =>
    /\ call.raw.RequestBody # <<>> =>
         \E ct \in RequestContentType(call.raw) : isParseableContentType(ct)
    /\ call.raw.ResponseBody # <<>> =>
         \E ct \in ResponseContentType(call.raw) : isParseableContentType(ct)
    /\ (/\ \A ct \in RequestContentType(call.raw) : isParseableContentType(ct)
        /\ ~call.input.Body.isNil
        /\ ~call.input.Body.fail) =>
         call.raw.RequestBody = call.input.Body.data
    /\ (/\ \A ct \in ResponseContentType(call.raw) : isParseableContentType(ct)
        /\ call.tr.err = "nil"
        /\ ~call.tr.resp.Body.isNil
        /\ ~call.tr.resp.Body.fail) =>
         call.raw.ResponseBody = call.tr.resp.Body.data

(***************************************************************************)
(* Properties of sanitize on a record that holds nothing sensitive         *)
(***************************************************************************)
\* the text holds an e-mail-like or a card-like part: an at sign, or a run
\* of digits, spaces and hyphens with the digits of a card number
LooksSensitive(s) ==
  \/ "@" \in Range(s)
  \/ \E i \in DOMAIN s :
       /\ s[i] \in Range(DigitChars)
       /\ Cardinality({j \in i..(i + RunLen(s, i, Range(DigitChars) \cup {" ", "-"}) - 1) :
                         s[j] \in Range(DigitChars)})
            >= CardMinRepeat

\* no key of the header map is sensitive, no value looks sensitive
HeadersSane(h) ==
  h.isNil \/ \A k \in DOMAIN h.m : ~IsSensitiveKey(k) /\ ~LooksSensitive(h.m[k])

\* the body does not look sensitive and, if it is a JSON object, has no
\* sensitive key, u being the decoded body
BodySane(body, u) ==
  /\ ~LooksSensitive(body)
  /\ IsObject(u) => \A k \in DOMAIN u.obj : ~IsSensitiveKey(k)

\* the record holds no sensitive key and no sensitive value
RecordSane(r) ==
  /\ HeadersSane(r.RequestHeaders)
  /\ HeadersSane(r.ResponseHeaders)
  /\ ~LooksSensitive(r.URL)
  /\ ~LooksSensitive(r.Path)
  /\ \A i \in DOMAIN ParamsOf(r.URL) : ~IsSensitiveKey(ParamsOf(r.URL)[i][1])
  /\ BodySane(r.RequestBody, jsonUnmarshalMap(r.RequestBody))
  /\ BodySane(r.ResponseBody, jsonUnmarshalMap(r.ResponseBody))

\* C24: sanitize on a record that holds no sensitive key and no
\* sensitive value returns no error and leaves every field as it was,
\* application/json bodies of any key order and formatting included.
C24_SaneRecordUnchanged ==
  (Sanitized /\ RecordSane(probe.rec)) => ~probe.err /\ probe.out = probe.rec

(***************************************************************************)
(* Properties of sanitize on the URL                                       *)
(***************************************************************************)
\* the keys of the pairs are in sorted order
SortedByKey(pairs) ==
  \A i \in DOMAIN pairs, j \in DOMAIN pairs : i < j => ~StrLess(pairs[j][1], pairs[i][1])

\* the URL out, and whether sanitize returned an error, are what the rule
\* makes of the URL text replaced, the record's URL after the replacement of
\* the value pattern, p being the result of parsing it and in the
\* parameters of its query
URLProcessed(replaced, p, in, out, err) ==
  IF p.err THEN err
  ELSE /\ ~err
       /\ IF \E i \in DOMAIN in : IsSensitiveKey(in[i][1])
            THEN /\ Range(ParamsOf(out)) = PairsRedacted(in)
                 /\ Len(ParamsOf(out)) = Len(in)
                 /\ SortedByKey(ParamsOf(out))
            ELSE out = replaced

\* C30: when the URL parses after the replacement of the value pattern,
\* every value of every query parameter with a sensitive key is the
\* placeholder and the other parameters keep their values; the query is
\* encoded anew, in sorted key order, only if a parameter was replaced, and
\* otherwise the URL is the replaced text as it is; when the replaced URL
\* does not parse, sanitize returns the error.
C30_QueryRedaction ==
  (Sanitized /\ probe.rec.URL # <<>>) =>
    \A replaced \in {sensitiveValuesReplaceAllString(probe.rec.URL)} :
      URLProcessed(replaced, urlParse(replaced), ParamsOf(replaced), probe.out.URL, probe.err)


(***************************************************************************)
(* Properties of config() under concurrent calls of RoundTrip              *)
(***************************************************************************)
InitialFetchers == {i \in DOMAIN callers : callers[i].pc = "fetching"}

\* goroutine i leaves Lock in this step
LeavesLock(i) == callers[i].pc = "lock" /\ callers'[i].pc # "lock"

\* C25: whatever the interleaving of concurrent RoundTrip calls, at most
\* one initial fetch is in flight at any moment, and once the cache is set
\* by a successful initial fetch, a caller that was waiting at the lock
\* leaves it with the cached configuration and without a fetch of its own.
C25_OneInitialFetch ==
  /\ [](Cardinality(InitialFetchers) <= 1)
  /\ [][\A i \in DOMAIN callers :
          (LeavesLock(i) /\ ~configCache.isNil)
             => /\ callers'[i].pc = "check"
                /\ callers'[i].cfg = configCache
                /\ callers'[i].fetched = callers[i].fetched]_vars

\* a caller has fetched the first configuration and another one, which
\* called meanwhile, has got the cache without fetching
C25_Witness ==
  \E i, j \in DOMAIN callers :
     /\ i # j
     /\ callers[i].fetched = 1
     /\ callers[j].fetched = 0
     /\ callers[j].calls = 1
     /\ callers[j].pc = "check"
     /\ ~callers[j].cfg.isNil

\* C26: every access to configCache happens with configMutex held, a copy
\* of the Agent struct by a value-receiver method counting as a read: the
\* goroutine at a.transport() holds the mutex, the refresh goroutine holds
\* it when it calls a.Config(), and no copy is concurrent with the refresh
\* goroutine's write.
C26_CacheAccessUnderLock ==
  /\ \A i \in DOMAIN callers : callers[i].pc = "transport" => configMutex = i
  /\ refresher.pc = "fetching" => configMutex = "refresher"
  /\ ~(refresher.pc = "store" /\ \E i \in DOMAIN callers : callers[i].pc = "transport")

\* C27: the mutex is held across a call of a.Config() only by a caller in
\* the first fetch, with the cache absent; the refresh goroutine fetches
\* without the mutex and holds it only to replace the pointer, so that
\* while a refresh fetch is in flight the cache is set and the mutex is
\* free for a caller waiting at Lock.
C27_LockOnlyForFirstFetch ==
  /\ \A i \in DOMAIN callers :
        (configMutex = i <=> callers[i].pc = "fetching")
  /\ (InitialFetchers # {} => configCache.isNil)
  /\ (configMutex = "refresher" <=> refresher.pc = "store")
  /\ refresher.pc = "fetching" => (configMutex = "free" /\ ~configCache.isNil)

\* a caller has got the cached configuration while a refresh fetch is in
\* flight
C27_Witness ==
  /\ refresher.pc = "fetching"
  /\ \E i \in DOMAIN callers :
        /\ callers[i].pc = "check"
        /\ callers[i].fetched = 0
        /\ ~callers[i].cfg.isNil

\* the calls of a.Config() in config() that returned a configuration
SuccessfulFetches ==
  {<<i, n>> \in (DOMAIN callers) \X (1..MaxCalls) : n <= callers[i].fetched}

\* C28: at most one refresh goroutine is ever started; it is started
\* exactly when a first fetch succeeds, that is when the cache goes from
\* nil to set (never after a failed fetch, never when the cache was there
\* from the start, for the cache never goes back to nil), and once started
\* it never terminates.
C28_OneRefreshLoop ==
  /\ [](/\ refresher.started <= 1
        /\ refresher.started = Cardinality(SuccessfulFetches)
        /\ (refresher.pc = "off" <=> refresher.started = 0))
  /\ [][/\ (refresher'.started # refresher.started
             <=> (configCache.isNil /\ ~configCache'.isNil))
        /\ ~configCache.isNil => ~configCache'.isNil
        /\ refresher.pc # "off" => refresher'.pc # "off"]_vars

\* a fetch has failed, a later one has succeeded, every goroutine has made
\* all its calls, and one refresh goroutine runs
C28_Witness ==
  /\ refresher.started = 1
  /\ refresher.pc # "off"
  /\ \A i \in DOMAIN callers : callers[i].calls = MaxCalls
  /\ \E i \in DOMAIN callers : callers[i].pc = "panic" /\ callers[i].panicAt = "config"
  /\ \E i \in DOMAIN callers : callers[i].fetched = 1 /\ callers[i].pc = "idle"


(***************************************************************************)
(* Properties of goHeadersToBearerHeaders                                  *)
(***************************************************************************)
\* goHeadersToBearerHeaders has been called
Collapsed == probe.op = "goHeaders" /\ probe.done

\* C31: goHeadersToBearerHeaders returns for every header map, a name with
\* several values or with an empty list of values included: nil for nil,
\* and otherwise a map with the names of the input, each with one string,
\* the first value of the name where it has one.
C31_HeaderCollapse ==
  Collapsed =>
    /\ ~probe.panics
    /\ probe.ret.isNil = probe.input.isNil
    /\ DOMAIN probe.ret.m = DOMAIN probe.input.m
    /\ \A k \in DOMAIN probe.input.m :
          probe.input.m[k] # <<>> => probe.ret.m[k] = probe.input.m[k][1]


(***************************************************************************)
(* Properties of the agent's own calls                                     *)
(***************************************************************************)
\* a pending record is shipped and the shipment succeeds
ShipsOk ==
  \E i \in DOMAIN tasks, answer \in LogAnswers :
     TaskLogRecords(i, answer) /\ lastShip'.outcome = "ok"

\* the refresh goroutine fetches a configuration and the fetch succeeds
RefreshesOk == \E c \in Configs : RefreshFetch(c) /\ refresher'.pc = "fetched"

\* the step is a log shipment: one telemetry goroutine has run and ended
Shipment == \E i \in DOMAIN tasks : tasks' = RemoveAt(tasks, i)

\* C32: the agent's own calls are not intercepted.  A pending record can
\* always be shipped and the refresh goroutine can always fetch, whatever
\* the blocked domains, the agent's own hosts included; a call of RoundTrip
\* starts at most one telemetry goroutine, and a telemetry goroutine that
\* has ended has made one POST with one record; a shipment starts no
\* telemetry goroutine and touches neither the call under way nor the
\* configuration; a configuration fetch ships nothing and is no call of the
\* transport for a caller's request.  So the pending shipments only go down
\* between two calls of RoundTrip, and the chain a call triggers ends with
\* its one shipment.
C32_OwnCallsDirect ==
  /\ [](/\ tasks # <<>> => ENABLED ShipsOk
        /\ refresher.pc = "sleep" => ENABLED RefreshesOk
        /\ lastShip.outcome # "none" => (lastShip.posts = 1 /\ lastShip.logs = 1)
        /\ call.spawned <= 1)
  /\ [][/\ tasks' # tasks =>
             \/ /\ Len(tasks') = Len(tasks) + 1
                /\ SubSeq(tasks', 1, Len(tasks)) = tasks
                /\ call.spawned = 0
                /\ call'.spawned = 1
             \/ /\ Shipment
                /\ call' = call
                /\ configCache' = configCache
                /\ configMutex' = configMutex
                /\ refresher' = refresher
        /\ lastShip' # lastShip => Shipment
        /\ (configCache' # configCache \/ refresher' # refresher) =>
             /\ tasks' = tasks
             /\ lastShip' = lastShip
             /\ call'.transportCalls = call.transportCalls
             /\ call'.spawned = call.spawned
             /\ call'.recordBuilt = call.recordBuilt]_vars

\* the agent blocks its own hosts: under that configuration a call of
\* RoundTrip has gone through, its record has been shipped with success,
\* nothing is left pending, and the refresh goroutine has fetched a
\* configuration that it is about to store
C32_Witness ==
  /\ configCache = ConfigBlockOwn
  /\ call.cfg = ConfigBlockOwn
  /\ call.spawned = 1
  /\ call.pc = "done"
  /\ tasks = <<>>
  /\ lastShip = [outcome |-> "ok", posts |-> 1, logs |-> 1]
  /\ refresher.pc = "fetched"

====
